---- MODULE Spec2Model ----
(***************************************************************************)
(* Model of the binaural beat generator's audio engine: the track         *)
(* lifecycle and envelope scheduling (Track.js, NoiseTrack.js,            *)
(* IsochronicTrack), the master bus, timer and export orchestration       *)
(* (AudioController.js) and the exporter with its WAV encoder             *)
(* (AudioExporter, held in src/service-worker.js).                        *)
(*                                                                         *)
(* Time is discrete; one tick is 100 ms.  All times stored in the state   *)
(* are relative to the present: an automation event's t is "ticks from    *)
(* now" (<= 0 for the anchor event), a timer's rem is "ticks until it     *)
(* fires".  Timers fire at the tick they are due.  The audio clock and    *)
(* the wall clock advance together.  A volume v in [0,1] is the integer   *)
(* v * VolScale; a ramp's value between its end points is rounded down.   *)
(***************************************************************************)
EXTENDS Integers, Sequences, FiniteSets, TLC

VARIABLES
  tracks,     \* the Track objects created (fields of Track and its subclasses)
  stops,      \* pending setTimeout(resolve, fadeOutDuration*1000) of Track._applyFadeOut
  master,     \* AudioController: masterVolume, masterGain, fades, the tracks Map, flags
  stopAlls,   \* suspended AudioController.stopAll() calls
  timer,      \* AudioController timer fields and the 1-second interval
  ctl,        \* AudioController export fields: isExporting, audioExporter
  exps,       \* exporter id -> AudioExporter object
  jobs,       \* export job id -> what startExport was given and what was called back
  tasks,      \* asynchronous work of the exporters that is in flight
  wav,        \* input and output of the WAV encoder
  noise,      \* the noise buffer being filled and the generator's locals
  env,        \* the platform: Date.now() granularity, supported export paths,
              \* the presets object store
  obs         \* history variables that the properties read

vars == <<tracks, stops, master, stopAlls, timer, ctl, exps, jobs, tasks, wav, noise, env, obs>>


\* --------------------------------------------------------------- bounds
VolScale == 4
MaxFade == 2
MaxStops == 2

\* ------------------------------------------------------ program constants
RampTime == 1          \* the 0.1 s ramp of setVolume / setMasterVolume
DefaultFadeIn == 20    \* 2 s
DefaultFadeOut == 10   \* 1 s
DefaultVolume == (7 * VolScale) \div 10   \* 0.7

\* a numeric option that is not given (undefined)
Absent == 0 - 1000

\* the number NaN (0 / 0): typeof NaN is 'number', every comparison with it
\* is false
NaN == 0 - 99999999

Max(S) == CHOOSE x \in S : \A y \in S : y <= x
Min(S) == CHOOSE x \in S : \A y \in S : x <= y

\* Math.max(0, Math.min(1, volume)): Math.min and Math.max yield NaN when an
\* argument is NaN
Clamp(v) ==
  IF v = NaN THEN NaN ELSE IF v < 0 THEN 0 ELSE IF v > VolScale THEN VolScale ELSE v

\* ------------------------------------------------------------ AudioParam
\* An AudioParam is its automation timeline: a sequence of events
\* [k, v, t] ordered by time, k = "set" (setValueAtTime) or "ramp"
\* (linearRampToValueAtTime, t being the ramp's end).

Event(k, v, t) == [k |-> k, v |-> v, t |-> t]

\* linear interpolation between event a and the ramp event b
Interp(a, b, at) == a.v + ((b.v - a.v) * (at - a.t)) \div (b.t - a.t)

\* the value the timeline yields at time `at`
ValueAt(p, at) ==
  LET past == {i \in 1..Len(p) : p[i].t <= at}
  IN IF past = {} THEN p[1].v
     ELSE LET i == Max(past)
          IN IF i < Len(p) /\ p[i + 1].k = "ramp"
             THEN Interp(p[i], p[i + 1], at)
             ELSE p[i].v

\* gain.value read by the program: the current value
Value(p) == ValueAt(p, 0)

\* an event is inserted after the events of the same or an earlier time
Insert(p, e) ==
  LET n == Cardinality({i \in 1..Len(p) : p[i].t <= e.t})
  IN SubSeq(p, 1, n) \o <<e>> \o SubSeq(p, n + 1, Len(p))

\* cancelScheduledValues(at): events at or after `at` are removed
CancelScheduledValues(p, at) == SelectSeq(p, LAMBDA e : e.t < at)

SetValueAtTime(p, v, at) == Insert(p, Event("set", v, at))

LinearRampToValueAtTime(p, v, at) == Insert(p, Event("ramp", v, at))

\* Events that no longer bear on the present or the future are dropped:
\* the timeline keeps its last event at or before now as anchor.
RECURSIVE DropPast(_)
DropPast(p) == IF Len(p) >= 2 /\ p[2].t <= 0 THEN DropPast(Tail(p)) ELSE p

Normalize(p) ==
  LET q == DropPast(p)
  IN IF Len(q) = 1 \/ q[2].k = "set"
     THEN <<Event("set", q[1].v, 0)>> \o Tail(q)
     ELSE <<Event("set", q[1].v, q[1].t)>> \o Tail(q)

\* the timeline one tick later
Shift(p) == Normalize([i \in 1..Len(p) |-> [p[i] EXCEPT !.t = @ - 1]])

\* cancelScheduledValues(now); setValueAtTime(from, now);
\* linearRampToValueAtTime(to, now + d)
RampFromNow(p, from, to, d) ==
  Normalize(LinearRampToValueAtTime(
              SetValueAtTime(CancelScheduledValues(p, 0), from, 0), to, d))

\* gain.value = v
AssignValue(p, v) == Normalize(SetValueAtTime(p, v, 0))

\* cancelScheduledValues(now); setValueAtTime(from, now); then
\* linearRampToValueAtTime(NaN, ...) throws a TypeError (the value is not
\* finite) and schedules nothing
RampThrows(p, from) == Normalize(SetValueAtTime(CancelScheduledValues(p, 0), from, 0))

\* ----------------------------------------------------------------- Track
Kinds == {"binaural", "isochronic", "noise"}

DefaultCarrier == 200   \* Hz
DefaultBeat == 7        \* Hz

\* new Track(audioContext, options): volume and fades are numbers or absent
NewTrack(kind, volume, fadeIn, fadeOut) ==
  [ kind |-> kind,
    isPlaying |-> FALSE,
    gain |-> <<Event("set", IF volume = Absent THEN DefaultVolume ELSE Clamp(volume), 0)>>,
    out |-> "destination",
    fadeInDuration |-> IF fadeIn # Absent /\ fadeIn >= 0 THEN fadeIn ELSE DefaultFadeIn,
    fadeOutDuration |-> IF fadeOut # Absent /\ fadeOut >= 0 THEN fadeOut ELSE DefaultFadeOut,
    nodes |-> FALSE,
    noiseType |-> IF kind = "noise" THEN "white" ELSE "none",
    source |-> "none",
    carrierFrequency |-> IF kind = "isochronic" THEN DefaultCarrier ELSE Absent,
    beatFrequency |-> IF kind = "isochronic" THEN DefaultBeat ELSE Absent ]

\* new IsochronicTrack(audioContext, {carrierFrequency, beatFrequency, ...}):
\* options.carrierFrequency || 200, options.beatFrequency || 7
NewIsochronicTrack(carrierFrequency, beatFrequency, volume, fadeIn, fadeOut) ==
  [NewTrack("isochronic", volume, fadeIn, fadeOut)
     EXCEPT !.carrierFrequency = IF carrierFrequency \in {Absent, 0, NaN} THEN DefaultCarrier
                                 ELSE carrierFrequency,
            !.beatFrequency = IF beatFrequency \in {Absent, 0, NaN} THEN DefaultBeat
                              ELSE beatFrequency]

\* new NoiseTrack(audioContext, {noiseType, ...}): noiseType is the colour
\* asked for, source the colour of the buffer the noise source plays
\* ("none": noiseSource is null)
NewNoiseTrack(noiseType, volume, fadeIn, fadeOut) ==
  [NewTrack("noise", volume, fadeIn, fadeOut) EXCEPT !.noiseType = noiseType]

Colours == {"white", "pink", "brown"}

\* NoiseTrack._createNoiseBuffer: the colour of the buffer it builds
CreateNoiseBuffer(noiseType) == IF noiseType \in {"pink", "brown"} THEN noiseType ELSE "white"

\* Track.getVolume
GetVolume(tr) == Value(tr.gain)

\* Track.setVolume
SetVolume(tr, volume) ==
  IF Clamp(volume) = NaN
  THEN \* the AudioParam rejects NaN with a TypeError
       IF tr.isPlaying THEN [tr EXCEPT !.gain = RampThrows(tr.gain, Value(tr.gain))]
       ELSE tr
  ELSE IF tr.isPlaying
  THEN [tr EXCEPT !.gain = RampFromNow(tr.gain, Value(tr.gain), Clamp(volume), RampTime)]
  ELSE [tr EXCEPT !.gain = AssignValue(tr.gain, Clamp(volume))]

\* Track.setFadeInDuration(duration)
TrackSetFadeInDuration(tr, duration) ==
  IF duration >= 0 THEN [tr EXCEPT !.fadeInDuration = duration] ELSE tr

\* Track.setFadeOutDuration(duration)
TrackSetFadeOutDuration(tr, duration) ==
  IF duration >= 0 THEN [tr EXCEPT !.fadeOutDuration = duration] ELSE tr

\* Track._applyFadeIn: the target is read from the gain node
ApplyFadeIn(tr) ==
  [tr EXCEPT !.gain = RampFromNow(tr.gain, 0, Value(tr.gain), tr.fadeInDuration)]

\* Track._applyFadeOut: the ramp; the timeout is added by the action
ApplyFadeOut(tr) ==
  [tr EXCEPT !.gain = RampFromNow(tr.gain, Value(tr.gain), 0, tr.fadeOutDuration)]

\* Track.start
BaseStart(tr) == ApplyFadeIn([tr EXCEPT !.isPlaying = TRUE])

\* NoiseTrack.start: _createNoiseSource, noiseSource.start(0), super.start()
NoiseStart(tr) ==
  BaseStart([tr EXCEPT !.nodes = TRUE, !.source = CreateNoiseBuffer(tr.noiseType)])

\* IsochronicTrack.start: _createOscillator, oscillator/lfo start, super.start()
IsochronicStart(tr) == BaseStart([tr EXCEPT !.nodes = TRUE])

\* BinauralTrack.start: builds the two oscillators, then super.start()
BinauralStart(tr) == BaseStart([tr EXCEPT !.nodes = TRUE])

\* a start() without the isPlaying check
StartWheneverCalled(tr) ==
  CASE tr.kind = "noise" -> NoiseStart(tr)
    [] tr.kind = "isochronic" -> IsochronicStart(tr)
    [] tr.kind = "binaural" -> BinauralStart(tr)

\* start() of the track's class
Start(tr) ==
  IF tr.isPlaying THEN tr
  ELSE CASE tr.kind = "noise" -> NoiseStart(tr)
         [] tr.kind = "isochronic" -> IsochronicStart(tr)
         [] tr.kind = "binaural" -> BinauralStart(tr)

\* Track.stop after the await: isPlaying = false
BaseStopped(tr) == [tr EXCEPT !.isPlaying = FALSE]

\* NoiseTrack.stop after await super.stop(): the noise source is released
NoiseStopped(tr) == [BaseStopped(tr) EXCEPT !.nodes = FALSE, !.source = "none"]

\* IsochronicTrack.stop after await super.stop(): oscillator, lfo, lfoGain released
IsochronicStopped(tr) == [BaseStopped(tr) EXCEPT !.nodes = FALSE]

\* BinauralTrack.stop after await super.stop(): the oscillators are released
BinauralStopped(tr) == [BaseStopped(tr) EXCEPT !.nodes = FALSE]

\* a stop() whose continuation leaves the subgraph in place
StoppedWithSubgraph(tr) == [tr EXCEPT !.isPlaying = FALSE]

\* the continuation of stop() of the track's class
Stopped(tr) ==
  CASE tr.kind = "noise" -> NoiseStopped(tr)
    [] tr.kind = "isochronic" -> IsochronicStopped(tr)
    [] tr.kind = "binaural" -> BinauralStopped(tr)

\* ---------------------------------------------------------- AudioExporter
\* new AudioExporter({audioContext, mp3Options}); job is the export job whose
\* onProgress/onComplete/onError the exporter holds (0: the callbacks are
\* null), mediaRecorder the job whose MediaRecorder it holds (0: null)
MaxDuration == 36000   \* maxDuration, 3600 s
DefaultBitRate == 192  \* mp3Options.bitRate, kbps
DefaultDuration == 600 \* options.duration || 60, 60 s
TicksPerSecond == 10

\* the graph built in the offline context: the gain of the output node,
\* per cloned track its kind, the volume read from the live track and the
\* automation of its gain in render time (ticks from the render start), and
\* whether the 440 Hz test tone was put in place of the tracks
NoGraph == [built |-> FALSE, gain |-> 0, clones |-> <<>>, tone |-> FALSE]

\* offlineContext: null, or an OfflineAudioContext
NoContext == [numberOfChannels |-> 0, length |-> 0, sampleRate |-> 0]

\* Math.ceil(a / b) for b > 0
Ceil(a, b) == IF a >= 0 THEN (a + b - 1) \div b ELSE 0 - ((0 - a) \div b)

\* Math.round(a / b) for b # 0: the nearest integer, a half rounded up
Round(a, b) ==
  LET n == IF b < 0 THEN 0 - a ELSE a
      d == IF b < 0 THEN 0 - b ELSE b
  IN (n \div d) + (IF 2 * (n % d) >= d THEN 1 ELSE 0)

\* a length of whole seconds only
TotalSamplesWholeSeconds(sampleRate, duration) == sampleRate * (duration \div TicksPerSecond)

\* totalSamples of _startFastExport: Math.ceil(sampleRate * recordingDuration),
\* the duration being in ticks
TotalSamples(sampleRate, duration) == Ceil(sampleRate * duration, TicksPerSecond)

\* new OfflineAudioContext(numChannels, totalSamples, sampleRate)
OfflineAudioContext(numChannels, totalSamples, sampleRate) ==
  [numberOfChannels |-> numChannels, length |-> totalSamples, sampleRate |-> sampleRate]

NewExporter ==
  [ isRecording |-> FALSE, isOfflineRendering |-> FALSE, exportCancelled |-> FALSE,
    exportFormat |-> "wav", exportProgress |-> 0, recordingDuration |-> 0,
    recordedChunks |-> 0, throttleInterval |-> FALSE, job |-> 0,
    mediaRecorder |-> 0, sourceNode |-> FALSE, destinationNode |-> FALSE,
    exportFilename |-> "", bitRate |-> DefaultBitRate,
    offlineGraph |-> NoGraph, offlineContext |-> NoContext,
    sampleRate |-> env.sampleRate, elapsed |-> 0 ]

\* AudioExporter.isSupported (the constructor's field and the static method)
IsSupported == env.recorder \/ env.offline

\* AudioExporter.isFastExportSupported
IsFastExportSupported == env.offline

\* AudioExporter.setupRecording(masterGain, tracks): the exporter's part
SetupRecording(e) ==
  IF ~IsSupported THEN e
  ELSE [e EXCEPT !.sourceNode = TRUE, !.destinationNode = env.recorder]

\* `value || fallback` on a number
OrDefault(value, fallback) == IF value = 0 THEN fallback ELSE value

\* the fade-in and fade-out _cloneBinauralTrack, _cloneIsochronicTrack and
\* _cloneNoiseTrack schedule on the clone's trackGain (now = 0)
CloneEnvelope(tr, duration) ==
  LET volume == GetVolume(tr)
      fadeInDuration == OrDefault(tr.fadeInDuration, DefaultFadeIn)
      fadeOutDuration == OrDefault(tr.fadeOutDuration, DefaultFadeOut)
      fadeIn == LinearRampToValueAtTime(
                  SetValueAtTime(<<Event("set", volume, 0)>>, 0, 0),
                  volume, fadeInDuration)
  IN IF duration > fadeOutDuration
     THEN LinearRampToValueAtTime(
            SetValueAtTime(fadeIn, volume, duration - fadeOutDuration), 0, duration)
     ELSE fadeIn

\* AudioExporter._cloneTrackToOfflineContext
CloneTrackToOfflineContext(tr, duration) ==
  [kind |-> tr.kind, volume |-> GetVolume(tr), gain |-> CloneEnvelope(tr, duration)]

\* AudioExporter._setupOfflineGraph on exporter x: offlineGain takes the
\* master gain's value, every track of sourceNode._connectedTracks is cloned
SetupOfflineGraph(x, m, trs) ==
  [ built |-> TRUE,
    gain |-> Value(m.gain),
    clones |-> [o \in m.connectedTracks |->
                  CloneTrackToOfflineContext(trs[o], x.recordingDuration)],
    tone |-> m.connectedTracks = {} ]

\* ----------------------------------------------------------- WAV encoder
\* A sample is an integer s standing for the float s / SampleScale.  A
\* number that JavaScript yields as undefined or NaN is NotANumber.
SampleScale == 2
NotANumber == 0 - 1

\* DataView.setUint8 of the characters of a string
WriteString(codes) == codes

\* DataView.setUint32(offset, n, true): ToUint32 turns NaN into 0
SetUint32(n) ==
  LET v == IF n = NotANumber THEN 0 ELSE n
  IN <<v % 256, (v \div 256) % 256, (v \div 65536) % 256, (v \div 16777216) % 256>>

\* DataView.setUint16(offset, n, true)
SetUint16(n) ==
  LET v == IF n = NotANumber THEN 0 ELSE n % 65536
  IN <<v % 256, (v \div 256) % 256>>

\* DataView.setInt16(offset, n, true): two's complement of the truncated n
SetInt16(n) == SetUint16(IF n < 0 THEN n + 65536 ELSE n)

\* the quotient rounded toward zero, as ToInt16 rounds
Trunc(a, b) == IF a >= 0 THEN a \div b ELSE 0 - ((0 - a) \div b)

\* a + b in JavaScript where a may be undefined
Plus(a, b) == IF a = NotANumber THEN NotANumber ELSE a + b

\* the first channel alone
FirstChannelOnly(channelData) == channelData[1]

\* AudioExporter._interleaveChannels
InterleaveChannels(channelData) ==
  LET numChannels == Len(channelData)
      length == Len(channelData[1])
  IN [i \in 1..(length * numChannels) |->
        channelData[((i - 1) % numChannels) + 1][((i - 1) \div numChannels) + 1]]

\* a sample scaled without being clamped first
ScaleUnclamped(s, scale) ==
  IF s < 0 THEN Trunc(s * 32768, scale) ELSE Trunc(s * 32767, scale)

\* the 16-bit value AudioExporter._floatTo16BitPCM writes for the sample
\* s / scale: Math.max(-1, Math.min(1, s)), times 0x8000 below zero and
\* 0x7FFF from zero up, truncated by setInt16
FloatToInt16(s, scale) ==
  LET sample == Max({0 - scale, Min({scale, s})})
  IN IF sample < 0 THEN Trunc(sample * 32768, scale)
     ELSE Trunc(sample * 32767, scale)

\* the 16-bit value AudioExporter._audioBufferToMp3 hands to the encoder for
\* the sample s / scale: Math.max(-32768, Math.min(32767, s * 32768)),
\* truncated by the Int16Array
Mp3FloatToInt16(s, scale) ==
  Trunc(Max({(0 - 32768) * scale, Min({32767 * scale, s * 32768})}), scale)

Quantize(s) == FloatToInt16(s, SampleScale)

\* AudioExporter._floatTo16BitPCM: the bytes of the ArrayBuffer it returns
RECURSIVE FloatTo16BitPCM(_)
FloatTo16BitPCM(float32Array) ==
  IF float32Array = <<>> THEN <<>>
  ELSE SetInt16(Quantize(Head(float32Array))) \o FloatTo16BitPCM(Tail(float32Array))

\* pcmData.length: an ArrayBuffer has byteLength and no length
ArrayBufferLength(bytes) == NotANumber

\* AudioExporter._createWavHeader
CreateWavHeader(dataLength, numChannels, sampleRate, bitDepth) ==
  LET bytesPerSample == bitDepth \div 8
      blockAlign == numChannels * bytesPerSample
      byteRate == sampleRate * blockAlign
      totalLength == Plus(dataLength, 36)
  IN WriteString(<<82, 73, 70, 70>>) \o SetUint32(totalLength)
       \o WriteString(<<87, 65, 86, 69>>) \o WriteString(<<102, 109, 116, 32>>)
       \o SetUint32(16) \o SetUint16(1) \o SetUint16(numChannels)
       \o SetUint32(sampleRate) \o SetUint32(byteRate) \o SetUint16(blockAlign)
       \o SetUint16(bitDepth) \o WriteString(<<100, 97, 116, 97>>)
       \o SetUint32(dataLength)

\* AudioExporter._audioBufferToWav: the bytes of the blob
AudioBufferToWav(audioBuffer) ==
  LET numChannels == audioBuffer.numberOfChannels
      pcmData == FloatTo16BitPCM(InterleaveChannels(audioBuffer.channelData))
  IN CreateWavHeader(ArrayBufferLength(pcmData), numChannels,
                     audioBuffer.sampleRate, 16) \o pcmData

\* ------------------------------------------------------- AudioController
\* new AudioController(options); gain is the master gain node's gain
\* (<<>> while masterGain is null), map is the tracks Map (id -> Track),
\* connectedTracks is masterGain._connectedTracks
NewController(masterVolume, fadeIn, fadeOut) ==
  [ isInitialized |-> FALSE,
    isPlaying |-> FALSE,
    masterVolume |-> IF masterVolume = Absent THEN DefaultVolume ELSE Clamp(masterVolume),
    gain |-> <<>>,
    fadeInDuration |-> IF fadeIn # Absent /\ fadeIn >= 0 THEN fadeIn ELSE DefaultFadeIn,
    fadeOutDuration |-> IF fadeOut # Absent /\ fadeOut >= 0 THEN fadeOut ELSE DefaultFadeOut,
    map |-> <<>>,
    connectedTracks |-> {} ]

\* the Track objects the controller holds
Held(m) == {m.map[id] : id \in DOMAIN m.map}

\* an exporter set up without the tracks being handed over
KeepConnectedTracks(m) == m

\* AudioExporter.setupRecording(masterGain, Array.from(this.tracks.values())):
\* the tracks are stored on the master gain node
ConnectTracks(m) == [m EXCEPT !.connectedTracks = Held(m)]

\* AudioController.initialize: the controller's fields
Initialize(m) ==
  IF m.isInitialized THEN m
  ELSE LET n == [m EXCEPT !.isInitialized = TRUE,
                          !.gain = <<Event("set", m.masterVolume, 0)>>]
       IN IF IsSupported THEN ConnectTracks(n) ELSE n

\* AudioController._initializeAudioExporter: a new exporter replaces the old
ExportersAfterInit(es) == Append(es, SetupRecording(NewExporter))

\* AudioController.initialize: the exporter created by it
InitializeExporter ==
  /\ exps' = IF master.isInitialized THEN exps ELSE ExportersAfterInit(exps)
  /\ ctl' = IF master.isInitialized THEN ctl
            ELSE [ctl EXCEPT !.audioExporter = Len(exps) + 1]
  /\ UNCHANGED <<jobs, tasks>>

\* ----------------------------------------------------------------- timer
\* the controller's timer fields: timerDuration, whether timerStartTime is
\* set and the time since (Date.now() - timerStartTime), the handle held in
\* timerInterval (Absent: null), timerCallback (Absent: null or not a
\* function), and the intervals set and not cleared: for each handle the
\* time until it fires next; times are in ticks
PollTicks == 10

\* clearInterval(handle)
ClearInterval(live, handle) == [h \in DOMAIN live \ {handle} |-> live[h]]

\* setInterval(f, 1000): the handle returned
SetInterval(live) == CHOOSE h \in 1..(Cardinality(DOMAIN live) + 1) : h \notin DOMAIN live

TimerIdle ==
  [duration |-> 0, started |-> FALSE, elapsed |-> 0, interval |-> Absent,
   callback |-> Absent, live |-> <<>>]

\* AudioController.stopTimer
StopTimer(t) ==
  [TimerIdle EXCEPT !.live = IF t.interval # Absent THEN ClearInterval(t.live, t.interval)
                             ELSE t.live]

\* a startTimer that does not clear the timer there is
StartTimerKeepsInterval(t, duration, callback) ==
  IF duration <= 0 THEN t
  ELSE [duration |-> duration, started |-> TRUE, elapsed |-> 0,
        interval |-> SetInterval(t.live), callback |-> callback,
        live |-> [h \in DOMAIN t.live \cup {SetInterval(t.live)} |->
                    IF h \in DOMAIN t.live THEN t.live[h] ELSE PollTicks]]

\* AudioController.startTimer(duration, callback)
StartTimer(t, duration, callback) ==
  LET s == StopTimer(t)
      handle == SetInterval(s.live)
  IN IF duration <= 0 THEN s
     ELSE [duration |-> duration, started |-> TRUE, elapsed |-> 0,
           interval |-> handle, callback |-> callback,
           live |-> [h \in DOMAIN s.live \cup {handle} |->
                       IF h = handle THEN PollTicks ELSE s.live[h]]]

\* AudioController.getRemainingTime
GetRemainingTime(t) ==
  IF ~t.started \/ t.duration = 0 THEN 0
  ELSE Max({0, t.duration - t.elapsed})

\* --------------------------------------------------------- history (obs)
\* obs.cfg[o]    the volume track o was last configured with: what the
\*               constructor stored and what setVolume returned since
\* obs.fade[o]   the fade-in under observation: on from a start() that took
\*               effect until fadeInDuration has passed or setVolume/stop()
\*               is called on the track; age = ticks since the start, len =
\*               fadeInDuration at the start, last = envelope one tick ago
\* obs.resolved  the stop() futures that resolved in the last step, each with
\*               whether the track was idle when stop() was called
\* obs.started[k] the tracks on which a start() took effect since the
\*               stopAll() call k began to stop the tracks
\* obs.timer     how often the timer started last has called stopAll() and
\*               its callback
\* obs.restarted the colour changes whose restart ran in the last step: the
\*               track, the colour asked for, the volume the track was
\*               configured with when update() was called, and whether the
\*               track was fading in or out at that moment
\* obs.op        the operation of the last step

NoFade == [on |-> FALSE, age |-> 0, len |-> 0, last |-> 0]

\* what a pending stop() remembers of the colour change that called it (for
\* the properties; none for a plain stop)
NoChange == [colour |-> "none", volume |-> 0, steady |-> FALSE]
MaxStopAlls == 1
StopAllIds == 1..MaxStopAlls

ObsInit(trs) ==
  [ cfg |-> [o \in DOMAIN trs |-> Value(trs[o].gain)],
    fade |-> [o \in DOMAIN trs |-> NoFade],
    resolved |-> {},
    restarted |-> {},
    started |-> [k \in StopAllIds |-> {}],
    timer |-> [stopAlls |-> 0, callbacks |-> 0],
    op |-> [name |-> "init"] ]

\* obs after start() was called and took effect on the tracks in S
ObsStarted(o0, S) ==
  [o0 EXCEPT !.fade = [o \in DOMAIN @ |->
                         IF o \in S
                         THEN [on |-> TRUE, age |-> 0,
                               len |-> tracks[o].fadeInDuration, last |-> 0]
                         ELSE @[o]],
             !.started = [k \in StopAllIds |-> @[k] \cup S]]

\* obs after stop() was called on the playing tracks in S
ObsStopping(o0, S) ==
  [o0 EXCEPT !.fade = [o \in DOMAIN @ |-> IF o \in S THEN NoFade ELSE @[o]]]

\* obs after a new Track with this gain was constructed
ObsCreated(o0, g) ==
  [o0 EXCEPT !.cfg = Append(@, Value(g)), !.fade = Append(@, NoFade)]

ObsOp(o0, op) == [o0 EXCEPT !.resolved = {}, !.restarted = {}, !.op = op]

\* ---------------------------------------------------------- track steps
TrackRefs == DOMAIN tracks

RemoveAt(s, i) == SubSeq(s, 1, i - 1) \o SubSeq(s, i + 1, Len(s))

\* track.start()
TrackStart(o) ==
  /\ tracks' = [tracks EXCEPT ![o] = Start(@)]
  /\ obs' = ObsOp(ObsStarted(obs, IF tracks[o].isPlaying THEN {} ELSE {o}),
                  [name |-> "start", trk |-> o, took |-> ~tracks[o].isPlaying])
  /\ UNCHANGED <<stops, master, stopAlls, timer, ctl, exps, jobs, tasks, wav, noise, env>>

\* track.stop() up to its await: nothing on an idle track, else the fade-out
\* ramp and the timeout that resolves the wait
TrackStop(o) ==
  /\ Len(stops) < MaxStops
  /\ IF tracks[o].isPlaying
     THEN /\ tracks' = [tracks EXCEPT ![o] = ApplyFadeOut(@)]
          /\ stops' = Append(stops, [trk |-> o, rem |-> tracks[o].fadeOutDuration,
                                     by |-> 0, restore |-> Absent, asked |-> NoChange])
          /\ obs' = ObsOp(ObsStopping(obs, {o}),
                          [name |-> "stop", trk |-> o, idle |-> FALSE])
     ELSE /\ UNCHANGED <<tracks, stops>>
          /\ obs' = [ObsOp(obs, [name |-> "stop", trk |-> o, idle |-> TRUE])
                       EXCEPT !.resolved = {[trk |-> o, idle |-> TRUE]}]
  /\ UNCHANGED <<master, stopAlls, timer, ctl, exps, jobs, tasks, wav, noise, env>>

\* NoiseTrack.update({noiseType}) on a noise track: a valid colour that
\* differs is stored; on a playing track stop() is called, and start() and
\* setVolume(currentVolume) run when its future resolves (see StopTimeout)
TrackUpdateNoise(o, noiseType) ==
  LET tr == tracks[o]
      changed == noiseType \in Colours /\ tr.noiseType # noiseType
      restarts == changed /\ tr.isPlaying
      currentVolume == GetVolume(tr)
      steady == /\ Value(tr.gain) = obs.cfg[o]
                /\ Len(tr.gain) = 1
                /\ \A i \in 1..Len(stops) : stops[i].trk # o
  IN /\ tr.kind = "noise"
     /\ restarts => Len(stops) < MaxStops
     /\ tracks' = [tracks EXCEPT ![o] =
                     IF restarts THEN ApplyFadeOut([tr EXCEPT !.noiseType = noiseType])
                     ELSE IF changed THEN [tr EXCEPT !.noiseType = noiseType]
                     ELSE tr]
     /\ stops' = IF restarts
                 THEN Append(stops, [trk |-> o, rem |-> tr.fadeOutDuration, by |-> 0,
                                     restore |-> currentVolume,
                                     asked |-> [colour |-> noiseType,
                                                volume |-> obs.cfg[o],
                                                steady |-> steady]])
                 ELSE stops
     /\ obs' = ObsOp(IF restarts THEN ObsStopping(obs, {o}) ELSE obs,
                     [name |-> "updateNoise", trk |-> o, restarts |-> restarts])
     /\ UNCHANGED <<master, stopAlls, timer, ctl, exps, jobs, tasks, wav, noise, env>>

\* track.update({volume})
TrackUpdateVolume(o, volume) ==
  /\ tracks' = [tracks EXCEPT ![o] = SetVolume(@, volume)]
  /\ obs' = IF Clamp(volume) = NaN
             THEN ObsOp(IF tracks[o].isPlaying THEN [obs EXCEPT !.fade[o] = NoFade] ELSE obs,
                        [name |-> "volumeThrew", trk |-> o])
             ELSE ObsOp([obs EXCEPT !.cfg[o] = Clamp(volume), !.fade[o] = NoFade],
                        [name |-> "volume", trk |-> o])
  /\ UNCHANGED <<stops, master, stopAlls, timer, ctl, exps, jobs, tasks, wav, noise, env>>

\* ----------------------------------------------------- controller steps
\* AudioController.createTrack(type, {volume, fadeInDuration, fadeOutDuration});
\* the id is `track-${Date.now()}`: the id of the track created last when
\* no millisecond has passed since (env.sameMs), else a new one
CreateTrack(type, volume, fadeIn, fadeOut) ==
  LET m == Initialize(master)
      fi == IF fadeIn = Absent THEN m.fadeInDuration ELSE fadeIn
      fo == IF fadeOut = Absent THEN m.fadeOutDuration ELSE fadeOut
      id == IF env.sameMs THEN env.lastId ELSE env.lastId + 1
      new == NewTrack(type, volume, fi, fo)
      ref == Len(tracks) + 1
  IN /\ InitializeExporter
     /\ IF type \in Kinds /\ Clamp(volume) = NaN
        THEN \* the Track constructor's gain.value = NaN throws a TypeError
             /\ master' = m
             /\ obs' = ObsOp(obs, [name |-> "createTrackThrew", type |-> type])
             /\ UNCHANGED <<tracks, env>>
        ELSE IF type \in Kinds
        THEN /\ tracks' = Append(tracks, new)
             /\ master' = [m EXCEPT !.map = [i \in DOMAIN @ \cup {id} |->
                                               IF i = id THEN ref ELSE @[i]]]
             /\ env' = [env EXCEPT !.sameMs = TRUE, !.lastId = id]
             /\ obs' = ObsOp(ObsCreated(obs, new.gain),
                             [name |-> "createTrack", id |-> id, trk |-> ref,
                              type |-> type, held |-> DOMAIN m.map])
        ELSE /\ master' = m
             /\ obs' = ObsOp(obs, [name |-> "createTrack", id |-> 0, trk |-> 0,
                                   type |-> type, held |-> DOMAIN m.map])
             /\ UNCHANGED <<tracks, env>>
     /\ UNCHANGED <<stops, stopAlls, timer, wav, noise>>

\* AudioController.removeTrack(trackId): on a playing track removeTrack, the
\* dispose of the track's class and Track.dispose each call stop(), which
\* finds isPlaying true each time; Track.dispose disconnects the gain node
RemoveTrack(id) ==
  LET held == id \in DOMAIN master.map
      o == master.map[id]
      tr == tracks[o]
      stop == [trk |-> o, rem |-> tr.fadeOutDuration, by |-> 0, restore |-> Absent,
               asked |-> NoChange]
  IN /\ held /\ tr.isPlaying => Len(stops) < MaxStops
     /\ IF ~held
        THEN /\ UNCHANGED <<tracks, stops, master>>
             /\ obs' = ObsOp(obs, [name |-> "removeTrack", id |-> id, removed |-> FALSE,
                                   trk |-> 0])
        ELSE /\ tracks' = [tracks EXCEPT ![o] =
                             [IF tr.isPlaying THEN ApplyFadeOut(tr) ELSE tr
                                EXCEPT !.out = "none"]]
             /\ stops' = IF tr.isPlaying THEN stops \o <<stop, stop, stop>> ELSE stops
             /\ master' = [master EXCEPT !.map = [i \in DOMAIN @ \ {id} |-> @[i]]]
             /\ obs' = ObsOp(IF tr.isPlaying THEN ObsStopping(obs, {o}) ELSE obs,
                             [name |-> "removeTrack", id |-> id, removed |-> TRUE,
                              trk |-> o])
     /\ UNCHANGED <<stopAlls, timer, ctl, exps, jobs, tasks, wav, noise, env>>

\* AudioController.startAll(fadeInTime) on the initialised controller m:
\* the master gain and isPlaying
StartAllMaster(m, fadeInTime) ==
  LET actual == IF fadeInTime # Absent THEN fadeInTime ELSE m.fadeInDuration
  IN [m EXCEPT !.gain = RampFromNow(@, 0, m.masterVolume, actual),
               !.isPlaying = TRUE]

\* a startAll that starts no track
StartAllStartsNone(m, trs) == trs

\* AudioController.startAll: track.start() on every track of the Map
StartAllTracks(m, trs) ==
  [o \in DOMAIN trs |-> IF o \in Held(m) THEN Start(trs[o]) ELSE trs[o]]

\* the held tracks on which a start() takes effect
IdleHeld(m) == {o \in Held(m) : ~tracks[o].isPlaying}

\* AudioController.startAll(fadeInTime) called by the application
StartAll(fadeInTime) ==
  LET m == Initialize(master)
  IN /\ InitializeExporter
     /\ tracks' = StartAllTracks(m, tracks)
     /\ master' = StartAllMaster(m, fadeInTime)
     /\ obs' = ObsOp(ObsStarted(obs, IdleHeld(m)),
                     [name |-> "startAll", f |-> fadeInTime, started |-> IdleHeld(m)])
     /\ UNCHANGED <<stops, stopAlls, timer, wav, noise, env>>

\* AudioController.setMasterVolume(volume) on the initialised controller m
SetMasterVolumeOn(m, volume) ==
  [m EXCEPT !.masterVolume = Clamp(volume),
            !.gain = IF Clamp(volume) = NaN
                     THEN RampThrows(@, Value(@))
                     ELSE RampFromNow(@, Value(@), Clamp(volume), RampTime)]

\* AudioController.setMasterVolume(volume)
SetMasterVolume(volume) ==
  LET m == Initialize(master)
  IN /\ InitializeExporter
     /\ master' = SetMasterVolumeOn(m, volume)
     /\ obs' = ObsOp(obs, [name |-> "setMasterVolume", volume |-> volume])
     /\ UNCHANGED <<tracks, stops, stopAlls, timer, wav, noise, env>>

\* AudioController.setFadeInDuration(duration)
SetFadeInDuration(duration) ==
  /\ master' = IF duration >= 0 THEN [master EXCEPT !.fadeInDuration = duration] ELSE master
  /\ obs' = ObsOp(obs, [name |-> "setFadeInDuration", duration |-> duration,
                        prev |-> master.fadeInDuration])
  /\ UNCHANGED <<tracks, stops, stopAlls, timer, ctl, exps, jobs, tasks, wav, noise, env>>

\* AudioController.setFadeOutDuration(duration)
SetFadeOutDuration(duration) ==
  /\ master' = IF duration >= 0 THEN [master EXCEPT !.fadeOutDuration = duration] ELSE master
  /\ obs' = ObsOp(obs, [name |-> "setFadeOutDuration", duration |-> duration,
                        prev |-> master.fadeOutDuration])
  /\ UNCHANGED <<tracks, stops, stopAlls, timer, ctl, exps, jobs, tasks, wav, noise, env>>

\* AudioController.updateTrack(trackId, {fadeInDuration, fadeOutDuration}) on a
\* held track: Track.update passes each number to its setter
UpdateTrackFades(o, fadeIn, fadeOut) ==
  LET a == IF fadeIn = Absent THEN tracks[o] ELSE TrackSetFadeInDuration(tracks[o], fadeIn)
      b == IF fadeOut = Absent THEN a ELSE TrackSetFadeOutDuration(a, fadeOut)
  IN /\ tracks' = [tracks EXCEPT ![o] = b]
     /\ obs' = ObsOp(obs, [name |-> "updateTrackFades", trk |-> o,
                           fadeIn |-> fadeIn, fadeOut |-> fadeOut,
                           prevIn |-> tracks[o].fadeInDuration,
                           prevOut |-> tracks[o].fadeOutDuration])
     /\ UNCHANGED <<stops, master, stopAlls, timer, ctl, exps, jobs, tasks, wav, noise, env>>

\* a stopAll that leaves the master gain faded out
StopAllLeavesGain(m, call) == [m EXCEPT !.isPlaying = FALSE]

\* the end of stopAll: the master gain is reset at the time the fade ended
\* (`now` is the time stopAll was called, age ticks ago)
StopAllFinish(m, call) ==
  [m EXCEPT !.gain = Normalize(SetValueAtTime(
                       CancelScheduledValues(@, call.f - call.age),
                       m.masterVolume, call.f - call.age)),
            !.isPlaying = FALSE]

FreeStopAllId(sa) == Min(StopAllIds \ {sa[i].id : i \in 1..Len(sa)})

\* stopAll returns at once: not initialised, or no track held
StopAllEarlyOn(m) == ~m.isInitialized \/ DOMAIN m.map = {}

StopAllEarly == StopAllEarlyOn(master)

\* AudioController.stopAll(fadeOutTime) up to its first await, on the
\* controller m with the stopAll calls sa under way
StopAllFrom(m, sa, fadeOutTime) ==
  LET actual == IF fadeOutTime # Absent THEN fadeOutTime ELSE m.fadeOutDuration
  IN IF StopAllEarlyOn(m)
     THEN [master |-> [m EXCEPT !.isPlaying = FALSE], stopAlls |-> sa]
     ELSE [master |-> [m EXCEPT !.gain = RampFromNow(@, Value(@), 0, actual)],
           stopAlls |-> Append(sa, [id |-> FreeStopAllId(sa), phase |-> "fade",
                                    rem |-> actual, f |-> actual, age |-> 0,
                                    left |-> 0, n |-> 0])]

StopAllBegin(fadeOutTime) ==
  /\ Len(stopAlls) < MaxStopAlls
  /\ master' = StopAllFrom(master, stopAlls, fadeOutTime).master
  /\ stopAlls' = StopAllFrom(master, stopAlls, fadeOutTime).stopAlls

\* what obs.op records of a stopAll call
StopAllOp(fadeOutTime) ==
  IF StopAllEarly
  THEN [name |-> "stopAllResolved", early |-> TRUE, started |-> {}, stopped |-> 0]
  ELSE [name |-> "stopAll", f |-> fadeOutTime]

\* AudioController.stopAll(fadeOutTime) called by the application
StopAll(fadeOutTime) ==
  /\ StopAllBegin(fadeOutTime)
  /\ obs' = ObsOp(obs, StopAllOp(fadeOutTime))
  /\ UNCHANGED <<tracks, stops, timer, ctl, exps, jobs, tasks, wav, noise, env>>

\* stopAll after its fade wait: track.stop() on every track held; when all
\* were idle the rest of stopAll runs at once
StopAllTimeout(i) ==
  LET call == stopAlls[i]
      playing == {o \in Held(master) : tracks[o].isPlaying}
      \* the tracks in the order of the Map
      order == [n \in 1..Cardinality(playing) |->
                  CHOOSE o \in playing : Cardinality({q \in playing : q < o}) = n - 1]
  IN /\ call.phase = "fade"
     /\ call.rem = 0
     /\ tracks' = [o \in DOMAIN tracks |->
                     IF o \in playing THEN ApplyFadeOut(tracks[o]) ELSE tracks[o]]
     /\ stops' = stops \o [n \in 1..Len(order) |->
                             [trk |-> order[n], rem |-> tracks[order[n]].fadeOutDuration,
                              by |-> call.id, restore |-> Absent, asked |-> NoChange]]
     /\ IF playing = {}
        THEN /\ master' = StopAllFinish(master, call)
             /\ stopAlls' = RemoveAt(stopAlls, i)
             /\ obs' = ObsOp([obs EXCEPT !.started[call.id] = {}],
                             [name |-> "stopAllResolved", early |-> FALSE,
                              started |-> {}, stopped |-> 0])
        ELSE /\ stopAlls' = [stopAlls EXCEPT ![i].phase = "tracks",
                                             ![i].left = Cardinality(playing),
                                             ![i].n = Cardinality(playing)]
             /\ obs' = ObsOp(ObsStopping([obs EXCEPT !.started[call.id] = {}], playing),
                             [name |-> "stopAllStops", id |-> call.id])
             /\ UNCHANGED master
     /\ UNCHANGED <<timer, ctl, exps, jobs, tasks, wav, noise, env>>

\* the continuation NoiseTrack.update attached to its stop(): start(), then
\* setVolume(currentVolume)
Restarted(tr, currentVolume) == SetVolume(Start(tr), currentVolume)

\* the timeout of a stop() fires: the rest of stop() runs and its future
\* resolves, with the restart of a colour change when update() had called
\* it; when it was the last one a stopAll waits for, the rest of that
\* stopAll runs in the same turn
StopTimeout(i) ==
  LET s == stops[i]
      restart == s.restore # Absent
      k == CHOOSE n \in 1..Len(stopAlls) : stopAlls[n].id = s.by
      last == s.by # 0 /\ stopAlls[k].left = 1
  IN /\ s.rem = 0
     /\ tracks' = [tracks EXCEPT ![s.trk] = IF restart THEN Restarted(Stopped(@), s.restore)
                                            ELSE Stopped(@)]
     /\ stops' = RemoveAt(stops, i)
     /\ IF s.by = 0 THEN UNCHANGED <<master, stopAlls>>
        ELSE IF last
        THEN /\ master' = StopAllFinish(master, stopAlls[k])
             /\ stopAlls' = RemoveAt(stopAlls, k)
        ELSE /\ stopAlls' = [stopAlls EXCEPT ![k].left = @ - 1]
             /\ UNCHANGED master
     /\ obs' = IF restart
               THEN [ObsOp(ObsStarted(obs, {s.trk}), [name |-> "restarted"])
                       EXCEPT !.cfg[s.trk] = Clamp(s.restore),
                              !.fade[s.trk] = NoFade,
                              !.restarted = {[trk |-> s.trk, colour |-> s.asked.colour,
                                              volume |-> s.asked.volume,
                                              steady |-> s.asked.steady,
                                              before |-> Value(tracks[s.trk].gain)]}]
               ELSE [ObsOp(obs, IF last
                                THEN [name |-> "stopAllResolved", early |-> FALSE,
                                      started |-> obs.started[s.by],
                                      stopped |-> stopAlls[k].n]
                                ELSE [name |-> "resolved"])
                       EXCEPT !.resolved = {[trk |-> s.trk, idle |-> FALSE]}]
     /\ UNCHANGED <<timer, ctl, exps, jobs, tasks, wav, noise, env>>

\* the onProgress that startExport passed on for job j is called with
\* progress (j = 0: the exporter's onProgress is null); history: the last
\* value the job was given, and whether a value was lower than the one before
OnProgress(js, j, progress) ==
  IF j = 0 THEN js
  ELSE [js EXCEPT ![j].regress = @ \/ (js[j].progress # Absent /\ progress < js[j].progress),
                  ![j].progress = progress]

\* the progress the interval of _setupProgressTracking computes, elapsed and
\* duration in ticks
RealTimeProgress(elapsed, duration) == Min({100, Round(elapsed * 100, duration)})
OfflineProgress(elapsed, duration) == Min({90, Round(elapsed * 90, duration)})

IntervalProgress(x) ==
  IF x.isRecording THEN RealTimeProgress(x.elapsed, x.recordingDuration)
  ELSE OfflineProgress(x.elapsed, x.recordingDuration)

\* the callback of the interval of _setupProgressTracking on exporter x
ProgressInterval(x) ==
  IF ~x.isRecording /\ ~x.isOfflineRendering
  THEN [x EXCEPT !.throttleInterval = FALSE]
  ELSE [x EXCEPT !.exportProgress = IntervalProgress(x)]

\* 100 ms pass; every timer that is due has fired; es and js are the
\* exporters and the jobs after them
Elapse(es, js) ==
  /\ \A i \in 1..Len(stops) : stops[i].rem > 0
  /\ \A i \in 1..Len(stopAlls) : stopAlls[i].phase = "fade" => stopAlls[i].rem > 0
  /\ \A h \in DOMAIN timer.live : timer.live[h] # 0
  /\ \A t \in tasks : t.type = "autostop" => t.rem > 0
  /\ tracks' = [o \in DOMAIN tracks |-> [tracks[o] EXCEPT !.gain = Shift(@)]]
  /\ stops' = [i \in 1..Len(stops) |-> [stops[i] EXCEPT !.rem = @ - 1]]
  /\ master' = IF master.isInitialized THEN [master EXCEPT !.gain = Shift(@)] ELSE master
  /\ stopAlls' = [i \in 1..Len(stopAlls) |->
                    [stopAlls[i] EXCEPT !.rem = IF @ > 0 THEN @ - 1 ELSE 0,
                                        !.age = @ + 1]]
  /\ env' = [env EXCEPT !.sameMs = FALSE]
  /\ obs' = ObsOp([obs EXCEPT !.fade = [o \in DOMAIN @ |->
                                          IF @[o].on /\ @[o].age < @[o].len
                                          THEN [@[o] EXCEPT !.age = @ + 1,
                                                            !.last = Value(tracks[o].gain)]
                                          ELSE NoFade]],
                  [name |-> "tick"])
  /\ timer' = IF DOMAIN timer.live = {} THEN timer
              ELSE [timer EXCEPT !.live = [h \in DOMAIN @ |-> @[h] - 1],
                                 !.elapsed = @ + 1]
  /\ tasks' = {IF t.type = "autostop" THEN [t EXCEPT !.rem = @ - 1] ELSE t : t \in tasks}
  /\ exps' = es
  /\ jobs' = js
  /\ UNCHANGED <<ctl, wav, noise>>

\* 100 ms pass, the progress of the exports aside
Tick == Elapse(exps, jobs)

\* 100 ms pass on the clock the progress interval reads (Date.now() less
\* recordingStartTime or renderStartTime, which no other code reads; it is
\* followed up to the duration, from where the progress stays at its cap),
\* and the interval of every exporter that has one fires
ProgressTick ==
  LET later == [e \in DOMAIN exps |->
                  IF exps[e].throttleInterval
                  THEN [exps[e] EXCEPT !.elapsed =
                          Min({@ + 1, Max({exps[e].recordingDuration, 0})})]
                  ELSE exps[e]]
      fires(e) == later[e].throttleInterval
      tells(e) == fires(e) /\ (later[e].isRecording \/ later[e].isOfflineRendering)
  IN Elapse([e \in DOMAIN exps |-> IF fires(e) THEN ProgressInterval(later[e])
                                   ELSE later[e]],
            [j \in DOMAIN jobs |->
               IF \E e \in DOMAIN exps : tells(e) /\ later[e].job = j
               THEN LET e == CHOOSE e \in DOMAIN exps : tells(e) /\ later[e].job = j
                    IN OnProgress(jobs, j, IntervalProgress(later[e]))[j]
               ELSE jobs[j]])

\* a millisecond passes
MsPasses ==
  /\ env.sameMs
  /\ env' = [env EXCEPT !.sameMs = FALSE]
  /\ obs' = ObsOp(obs, [name |-> "ms"])
  /\ UNCHANGED <<tracks, stops, master, stopAlls, timer, ctl, exps, jobs, tasks, wav, noise>>

\* ------------------------------------------------------------ timer steps
\* controller.startTimer(duration, callback)
TimerStart(duration, callback) ==
  /\ timer' = StartTimer(timer, duration, callback)
  /\ obs' = ObsOp([obs EXCEPT !.timer = [stopAlls |-> 0, callbacks |-> 0]],
                  [name |-> "startTimer", duration |-> duration,
                   callback |-> callback, pending |-> timer.interval # Absent,
                   elapsed |-> timer.elapsed])
  /\ UNCHANGED <<tracks, stops, master, stopAlls, ctl, exps, jobs, tasks, wav, noise, env>>

\* controller.stopTimer()
TimerStop ==
  /\ timer' = StopTimer(timer)
  /\ obs' = ObsOp(obs, [name |-> "stopTimer"])
  /\ UNCHANGED <<tracks, stops, master, stopAlls, ctl, exps, jobs, tasks, wav, noise, env>>

\* the interval of startTimer fires: the poll
TimerPoll(h) ==
  LET due == timer.elapsed >= timer.duration
      cleared == StopTimer(timer)
      called == cleared.callback # Absent
      again(t) == IF h \in DOMAIN t.live THEN [t EXCEPT !.live[h] = PollTicks] ELSE t
  IN /\ h \in DOMAIN timer.live /\ timer.live[h] = 0
     /\ IF due
        THEN /\ timer' = again(cleared)
             /\ StopAllBegin(Absent)
             /\ obs' = ObsOp([obs EXCEPT !.timer.stopAlls = @ + 1,
                                         !.timer.callbacks = IF called THEN @ + 1 ELSE @],
                             [name |-> "timerPoll", due |-> TRUE,
                              stopAll |-> StopAllOp(Absent),
                              callback |-> timer.callback,
                              elapsed |-> timer.elapsed, duration |-> timer.duration])
        ELSE /\ timer' = again(timer)
             /\ obs' = ObsOp(obs, [name |-> "timerPoll", due |-> FALSE,
                                   elapsed |-> timer.elapsed,
                                   duration |-> timer.duration])
             /\ UNCHANGED <<master, stopAlls>>
     /\ UNCHANGED <<tracks, stops, ctl, exps, jobs, tasks, wav, noise, env>>

\* ----------------------------------------------------------- export steps
\* jobs[j] is the export job j that startExport accepted: what its callbacks
\* close over (wasPlaying, fast), the exporter exp that runs it, the state of
\* its MediaRecorder, and its history: how often its onComplete and onError
\* were called, whether cancelExport succeeded on it, whether its audio was
\* rendered or captured and encoded, the onComplete calls after its cancel
\* (afterCancel) and those not earned by its own encoded audio (unearned).
\* tasks is the asynchronous work under way, records [type, exp, job, rem]:
\*   "render"    offlineContext.startRendering() of exporter exp
\*   "stop"      the dataavailable and stop events of job's stopped recorder
\*   "convert"   _convertToWav / _convertToMp3 of job's recording
\*   "autostop"  the timeout of _startRealTimeRecording, due in rem ticks
MaxJobs == 2
MaxExporters == 3
MaxChunks == 1
MaxCalls == 2

Formats == {"wav", "mp3"}

NewJob(format, fast, wasPlaying, e) ==
  [ format |-> format, fast |-> fast, wasPlaying |-> wasPlaying, exp |-> e,
    recorder |-> IF fast THEN "none" ELSE "recording",
    complete |-> 0, error |-> 0, cancelled |-> FALSE, afterCancel |-> 0,
    rendered |-> FALSE, encoded |-> FALSE, unearned |-> 0,
    progress |-> Absent, regress |-> FALSE ]

Task(type, e, j, rem) == [type |-> type, exp |-> e, job |-> j, rem |-> rem]

Count(n) == Min({MaxCalls, n + 1})

\* history of a step in which an export ended: whether it was a real-time
\* export, whether startExport had started playback for it, and isPlaying
\* and the number of stopAll calls under way before the step
NoEnd == [real |-> FALSE, started |-> FALSE, playing |-> FALSE, n |-> 0]

Ends(j, ended) ==
  IF ~ended \/ j = 0 THEN NoEnd
  ELSE [real |-> ~jobs[j].fast, started |-> ~jobs[j].wasPlaying,
        playing |-> master.isPlaying, n |-> Len(stopAlls)]

\* the controller's part of the state an export step works on
St == [ctl |-> ctl, jobs |-> jobs, master |-> master, stopAlls |-> stopAlls]

Apply(st) ==
  /\ Len(st.stopAlls) <= MaxStopAlls
  /\ ctl' = st.ctl
  /\ jobs' = st.jobs
  /\ master' = st.master
  /\ stopAlls' = st.stopAlls

\* the onComplete / onError wrapper that startExport made for job j is
\* called (kind "complete" / "error"); j = 0: the exporter's callback is null
Callback(kind, j, earned, st) ==
  IF j = 0 THEN st
  ELSE LET job == st.jobs[j]
           r == IF ~job.wasPlaying /\ ~job.fast
                THEN StopAllFrom(st.master, st.stopAlls, 0)
                ELSE [master |-> st.master, stopAlls |-> st.stopAlls]
       IN [ ctl |-> [st.ctl EXCEPT !.isExporting = FALSE],
            jobs |-> [st.jobs EXCEPT ![j] =
                       IF kind = "complete"
                       THEN [job EXCEPT !.complete = Count(@),
                                        !.afterCancel = IF job.cancelled THEN Count(@) ELSE @,
                                        !.unearned = IF earned THEN @ ELSE Count(@)]
                       ELSE [job EXCEPT !.error = Count(@)]],
            master |-> r.master,
            stopAlls |-> r.stopAlls ]

\* AudioExporter._handleError on exporter x
HandleError(x, st) == Callback("error", x.job, FALSE, st)

\* AudioExporter.stopRecording on exporter e of es: the exporters, the tasks
\* and the recorders after it
StopRecording(e, es, ts, js) ==
  LET x == es[e]
  IN IF ~x.isRecording /\ ~x.isOfflineRendering
     THEN [exps |-> es, tasks |-> ts, jobs |-> js]
     ELSE IF x.isRecording
     THEN [ exps |-> [es EXCEPT ![e].isRecording = FALSE,
                                ![e].throttleInterval = FALSE],
            tasks |-> ts \cup {Task("stop", e, x.mediaRecorder, 0)},
            jobs |-> [js EXCEPT ![x.mediaRecorder].recorder = "stopping"] ]
     ELSE [ exps |-> [es EXCEPT ![e].throttleInterval = FALSE],
            tasks |-> ts, jobs |-> js ]

\* what a rejected start must leave alone of the job the exporter x runs
JobState(x, js, m) ==
  [ filename |-> x.exportFilename, bitRate |-> x.bitRate, format |-> x.exportFormat,
    duration |-> x.recordingDuration, progress |-> x.exportProgress,
    isPlaying |-> m.isPlaying,
    calls |-> IF x.job = 0 THEN 0 ELSE js[x.job].complete + js[x.job].error ]

\* an estimate that leaves the WAV header out
EstimateWithoutHeader(x, durationSeconds, format, bitRate) ==
  IF format = "wav" THEN Ceil(durationSeconds * x.sampleRate * 2 * 2, TicksPerSecond)
  ELSE IF format = "mp3"
  THEN Ceil(durationSeconds * OrDefault(IF bitRate = Absent THEN 0 ELSE bitRate, x.bitRate)
              * 100, 8)
  ELSE 0

\* AudioExporter.calculateEstimatedFileSize on exporter x: the bytes of its
\* result; durationSeconds is in ticks, bitRate in kbps (Absent: null)
CalculateEstimatedFileSize(x, durationSeconds, format, bitRate) ==
  LET sampleRate == x.sampleRate
      numChannels == 2
      bytesPerSample == 2
      actualBitRate == OrDefault(IF bitRate = Absent THEN 0 ELSE bitRate, x.bitRate)
  IN IF format = "wav"
     THEN Ceil(durationSeconds * sampleRate * numChannels * bytesPerSample,
               TicksPerSecond) + 44
     ELSE IF format = "mp3"
     THEN Ceil(durationSeconds * actualBitRate * 1000, 8 * TicksPerSecond)
     ELSE 0

\* AudioController.calculateEstimatedFileSize(durationSeconds, format,
\* bitRate); history: the arguments, the bytes returned (Absent: null) and
\* the mp3Options.bitRate and sample rate of the exporter at the call
EstimateFileSize(durationSeconds, format, bitRate) ==
  LET e == ctl.audioExporter
  IN /\ obs' = ObsOp(obs,
                [name |-> "calculateEstimatedFileSize", duration |-> durationSeconds,
                 format |-> format, bitRate |-> bitRate,
                 bytes |-> IF e = 0 THEN Absent
                           ELSE CalculateEstimatedFileSize(exps[e], durationSeconds,
                                                           format, bitRate),
                 configured |-> IF e = 0 THEN Absent ELSE exps[e].bitRate,
                 sampleRate |-> IF e = 0 THEN Absent ELSE exps[e].sampleRate])
     /\ UNCHANGED <<tracks, stops, master, stopAlls, timer, ctl, exps, jobs, tasks,
                    wav, noise, env>>

\* AudioExporter.startRecording, before it chooses the export path: the
\* filename and the MP3 options are stored
StoreOptions(x, filename, bitRate) ==
  [x EXCEPT !.exportFilename = filename,
            !.bitRate = IF bitRate = Absent THEN @ ELSE bitRate]

\* AudioController.startExport({format, duration, filename, mp3Options,
\* onComplete, onError})
StartExport(format, duration, filename, bitRate) ==
  LET fast == IsFastExportSupported
      m0 == Initialize(master)
      es0 == IF master.isInitialized THEN exps ELSE ExportersAfterInit(exps)
      a0 == IF master.isInitialized THEN ctl.audioExporter ELSE Len(es0)
      refused == ctl.isExporting \/ a0 = 0 \/ ~IsSupported
      wasPlaying == m0.isPlaying
      plays == ~fast /\ ~wasPlaying
      m1 == IF plays THEN StartAllMaster(m0, 0) ELSE m0
      m2 == IF fast THEN ConnectTracks(m1) ELSE m1
      es1 == IF fast THEN ExportersAfterInit(es0) ELSE es0
      e == IF fast THEN Len(es1) ELSE a0
      x == StoreOptions(es1[e], filename, bitRate)
      j == Len(jobs) + 1
      busy == IF fast THEN x.isRecording \/ x.isOfflineRendering ELSE x.isRecording
      unset == IF fast THEN ~x.sourceNode ELSE ~x.destinationNode
      used == Min({OrDefault(duration, DefaultDuration), MaxDuration})
      set == [x EXCEPT !.recordingDuration = used,
                       !.exportFormat = format, !.job = j,
                       !.exportProgress = 0, !.exportCancelled = FALSE,
                       !.throttleInterval = TRUE, !.elapsed = 0]
      \* new OfflineAudioContext throws on a length that is not positive
      totalSamples == TotalSamples(x.sampleRate, used)
      throws == fast /\ totalSamples <= 0
      st0 == [ctl |-> [ctl EXCEPT !.audioExporter = e], jobs |-> jobs,
              master |-> m2, stopAlls |-> stopAlls]
      \* history: the call came while an export was active, on which
      \* exporter, and what that exporter's job looked like
      active == IF ctl.isExporting THEN ctl.audioExporter
                ELSE IF ~refused /\ busy THEN e
                ELSE 0
      before == IF active = 0 THEN JobState(NewExporter, jobs, m0)
                ELSE JobState(exps[active], jobs, master)
      op == [name |-> "startExport", job |-> 0, active |-> active, before |-> before,
             ends |-> NoEnd, duration |-> duration]
      failed == [op EXCEPT !.ends = [real |-> ~fast, started |-> plays,
                                     playing |-> m0.isPlaying, n |-> Len(stopAlls)]]
  IN /\ ~refused /\ ~busy /\ ~unset /\ ~throws => Len(jobs) < MaxJobs
     /\ ~refused /\ fast => Len(es0) < MaxExporters
     /\ IF refused
        THEN /\ master' = m0
             /\ exps' = es0
             /\ ctl' = [ctl EXCEPT !.audioExporter = a0]
             /\ obs' = ObsOp(obs, op)
             /\ UNCHANGED <<tracks, stopAlls, jobs, tasks>>
        ELSE /\ tracks' = IF plays THEN StartAllTracks(m0, tracks) ELSE tracks
             /\ IF busy \/ unset
                THEN /\ Apply([HandleError(x, st0) EXCEPT !.ctl.isExporting = FALSE])
                     /\ exps' = [es1 EXCEPT ![e] = x]
                     /\ UNCHANGED tasks
                     /\ obs' = ObsOp(ObsStarted(obs, IF plays THEN IdleHeld(m0) ELSE {}),
                                     failed)
                ELSE IF throws
                \* the catch of _startFastExport: the error goes to the
                \* callbacks of this request, which is not started
                THEN /\ Apply([st0 EXCEPT !.ctl.isExporting = FALSE])
                     /\ exps' = [es1 EXCEPT ![e] = [set EXCEPT !.job = 0,
                                                               !.throttleInterval = FALSE]]
                     /\ UNCHANGED tasks
                     /\ obs' = ObsOp(obs, failed)
                ELSE /\ Apply([st0 EXCEPT !.ctl.isExporting = TRUE,
                                          !.jobs = Append(@, NewJob(format, fast, wasPlaying, e))])
                     /\ exps' = [es1 EXCEPT ![e] =
                                   IF fast
                                   THEN [set EXCEPT !.isOfflineRendering = TRUE,
                                                    !.offlineContext =
                                                       OfflineAudioContext(2, totalSamples,
                                                                           x.sampleRate),
                                                    !.offlineGraph =
                                                       SetupOfflineGraph(set, m2, tracks)]
                                   ELSE [set EXCEPT !.recordedChunks = 0,
                                                    !.mediaRecorder = j,
                                                    !.isRecording = TRUE]]
                     /\ tasks' = tasks \cup
                                   {IF fast THEN Task("render", e, j, 0)
                                    ELSE Task("autostop", e, j, Max({0, used}))}
                     /\ obs' = ObsOp(ObsStarted(obs, IF plays THEN IdleHeld(m0) ELSE {}),
                                     [op EXCEPT !.job = j])
     /\ UNCHANGED <<stops, timer, wav, noise, env>>

\* AudioController.stopExport()
StopExport ==
  LET e == ctl.audioExporter
      r == StopRecording(e, exps, tasks, jobs)
  IN /\ IF ~ctl.isExporting \/ e = 0
        THEN UNCHANGED <<ctl, exps, tasks, jobs>>
        ELSE /\ ctl' = [ctl EXCEPT !.isExporting = FALSE]
             /\ exps' = r.exps
             /\ tasks' = r.tasks
             /\ jobs' = r.jobs
     /\ obs' = ObsOp(obs, [name |-> "stopExport",
                           rejected |-> ~ctl.isExporting \/ e = 0])
     /\ UNCHANGED <<tracks, stops, master, stopAlls, timer, wav, noise, env>>

\* AudioController.cancelExport(), cancelRecording of the exporter included
CancelExport ==
  LET e == ctl.audioExporter
      x == exps[e]
      success == ctl.isExporting /\ e # 0 /\ (x.isRecording \/ x.isOfflineRendering)
      r == x.mediaRecorder
  IN /\ IF ~success
        THEN UNCHANGED <<ctl, exps, tasks, jobs>>
        ELSE /\ ctl' = [ctl EXCEPT !.isExporting = FALSE]
             /\ exps' = [exps EXCEPT ![e] =
                          IF x.isRecording
                          THEN [x EXCEPT !.exportCancelled = TRUE, !.isRecording = FALSE,
                                         !.recordedChunks = 0, !.throttleInterval = FALSE]
                          ELSE [x EXCEPT !.exportCancelled = TRUE,
                                         !.isOfflineRendering = FALSE,
                                         !.throttleInterval = FALSE]]
             /\ tasks' = IF x.isRecording THEN tasks \cup {Task("stop", e, r, 0)}
                         ELSE tasks
             /\ jobs' = [j \in DOMAIN jobs |->
                           [jobs[j] EXCEPT
                              !.cancelled = @ \/ j = x.job,
                              !.recorder = IF x.isRecording /\ j = r
                                           THEN "stopping" ELSE @]]
     /\ obs' = ObsOp(obs, [name |-> "cancelExport", success |-> success,
                           ends |-> IF success THEN Ends(x.job, TRUE) ELSE NoEnd])
     /\ UNCHANGED <<tracks, stops, master, stopAlls, timer, wav, noise, env>>

\* offlineContext.startRendering() settles: ok, or rejected
RenderDone(t, ok) ==
  LET x == exps[t.exp]
      done == [x EXCEPT !.isOfflineRendering = FALSE,
                        !.exportProgress = IF ~ok THEN @
                                           ELSE IF x.exportFormat = "wav" THEN 100
                                           ELSE 90]
      \* _processRenderedBuffer: the WAV blob is delivered; the MP3 branch
      \* fails (lamejs is not loaded, and the encoder's result is no promise)
      delivers == ok /\ x.exportFormat = "wav"
      told == IF ~ok THEN jobs
              ELSE IF delivers THEN OnProgress(OnProgress(jobs, x.job, 90), x.job, 100)
              ELSE OnProgress(jobs, x.job, 90)
      st == [St EXCEPT !.jobs = [told EXCEPT ![t.job].rendered = ok,
                                             ![t.job].encoded = delivers]]
  IN /\ t.type = "render"
     /\ tasks' = tasks \ {t}
     /\ exps' = [exps EXCEPT ![t.exp] = done]
     /\ Apply(IF delivers THEN Callback("complete", x.job, x.job = t.job, st)
              ELSE HandleError(x, st))
     /\ obs' = ObsOp(obs, [name |-> "renderDone", job |-> t.job, ok |-> ok,
                           ends |-> Ends(t.job, TRUE)])
     /\ UNCHANGED <<tracks, stops, timer, wav, noise, env>>

\* the timeout of _startRealTimeRecording fires
AutoStop(t) ==
  LET r == StopRecording(t.exp, exps, tasks \ {t}, jobs)
      x == exps[t.exp]
      \* history: the capture this timer stops (0: none) and the time left
      \* until that capture's own deadline
      stopped == IF x.isRecording THEN x.mediaRecorder ELSE 0
      own == {u \in tasks : u.type = "autostop" /\ u.job = stopped}
  IN /\ t.type = "autostop"
     /\ t.rem = 0
     /\ exps' = r.exps
     /\ tasks' = r.tasks
     /\ jobs' = r.jobs
     /\ obs' = ObsOp(obs, [name |-> "autoStop", job |-> t.job, stopped |-> stopped,
                           left |-> IF own = {} THEN 0
                                    ELSE Max({u.rem : u \in own})])
     /\ UNCHANGED <<tracks, stops, master, stopAlls, timer, ctl, wav, noise, env>>

\* a stopped MediaRecorder fires dataavailable (data: with audio in it) and
\* stop: ondataavailable, then onstop with _finalizeRecording
RecorderStopped(t, data) ==
  LET x == exps[t.exp]
      chunks == IF data THEN Min({MaxChunks, x.recordedChunks + 1})
                ELSE x.recordedChunks
      converts == ~x.exportCancelled /\ chunks > 0
      told == IF converts THEN OnProgress(jobs, x.job, 100) ELSE jobs
      st == [St EXCEPT !.jobs = [told EXCEPT ![t.job].recorder = "inactive",
                                             ![t.job].rendered = @ \/ converts]]
  IN /\ t.type = "stop"
     /\ exps' = [exps EXCEPT ![t.exp].recordedChunks = chunks,
                             ![t.exp].exportProgress = IF converts THEN 100 ELSE @]
     /\ tasks' = (tasks \ {t}) \cup
                   (IF converts THEN {Task("convert", t.exp, t.job, 0)} ELSE {})
     /\ Apply(IF ~x.exportCancelled /\ chunks = 0 THEN HandleError(x, st) ELSE st)
     /\ obs' = ObsOp(obs, [name |-> "recorderStopped", job |-> t.job,
                           ends |-> Ends(t.job, ~x.exportCancelled /\ chunks = 0)])
     /\ UNCHANGED <<tracks, stops, timer, wav, noise, env>>

\* _convertToWav / _convertToMp3 settles: ok, or rejected
ConvertDone(t, ok) ==
  LET x == exps[t.exp]
      st == [St EXCEPT !.jobs[t.job].encoded = ok]
  IN /\ t.type = "convert"
     /\ tasks' = tasks \ {t}
     /\ Apply(IF ok THEN Callback("complete", x.job, x.job = t.job, st)
              ELSE HandleError(x, st))
     /\ obs' = ObsOp(obs, [name |-> "convertDone", job |-> t.job, ok |-> ok,
                           ends |-> Ends(t.job, TRUE)])
     /\ UNCHANGED <<tracks, stops, timer, exps, wav, noise, env>>

\* --------------------------------------------------------- noise buffers
\* Samples and the generators' locals are fixed-point numbers, NoiseScale
\* to 1; the coefficients are kept to five decimals.
NoiseScale == 10000
BufferSize == 24    \* bufferSize, in frames
Octaves == 7

\* a * num / den, rounded
Times(a, num, den) == Round(a * num, den)

Abs(a) == IF a < 0 THEN 0 - a ELSE a

\* one channel of a buffer before its generator runs: channelData as far as
\* it is written, the generator's locals (values of _createPinkNoiseBuffer,
\* b0..b6 of generateNoise, lastValue / lastOut, maxSum / maxValue), and the
\* history of the draws: the last one and how often the value changed
NewNoiseBuffer(generator, noiseType) ==
  [ generator |-> generator, noiseType |-> noiseType, channelData |-> <<>>,
    values |-> [j \in 1..Octaves |-> 0], b |-> [j \in 1..7 |-> 0],
    last |-> 0, max |-> 0, normalized |-> FALSE,
    draw |-> Absent, turns |-> 0 ]

\* NoiseTrack._createWhiteNoiseBuffer, one pass of its loop; white is
\* Math.random() * 2 - 1
CreateWhiteNoiseSample(nb, white) ==
  [nb EXCEPT !.channelData = Append(@, white)]

\* NoiseTrack._createPinkNoiseBuffer, pass i of its first loop; the draws of
\* one pass are equal
CreatePinkNoiseSample(nb, white) ==
  LET i == Len(nb.channelData)
      values == [j \in 1..Octaves |-> IF i % (2 ^ (j - 1)) = 0 THEN white
                                      ELSE nb.values[j]]
      sum == values[1] + values[2] + values[3] + values[4] + values[5]
               + values[6] + values[7]
  IN [nb EXCEPT !.values = values, !.max = Max({@, Abs(sum)}),
                !.channelData = Append(@, sum)]

\* NoiseTrack._createBrownNoiseBuffer, one pass of its first loop:
\* randomValue is Math.random() * 0.2 - 0.1, a tenth of white
CreateBrownNoiseSample(nb, white) ==
  LET randomValue == Times(white, 1, 10)
      lastValue == Times(nb.last + randomValue, 99, 100)
  IN [nb EXCEPT !.last = lastValue, !.max = Max({@, Abs(lastValue)}),
                !.channelData = Append(@, lastValue)]

\* channelData[i] /= maxSum (maxValue)
Normalized(sample, max) ==
  IF max = 0 THEN NaN ELSE Round(sample * NoiseScale, max)

\* the second loop of _createPinkNoiseBuffer and _createBrownNoiseBuffer
NormalizeBuffer(nb) ==
  [nb EXCEPT !.channelData = [i \in DOMAIN @ |-> Normalized(@[i], nb.max)],
             !.normalized = TRUE]

\* generateNoise of _cloneNoiseTrack, one pass of the loop of each colour
GenerateWhite(nb, white) ==
  [nb EXCEPT !.channelData = Append(@, white)]

GeneratePink(nb, white) ==
  LET b0 == Times(nb.b[1], 99886, 100000) + Times(white, 5552, 100000)
      b1 == Times(nb.b[2], 99332, 100000) + Times(white, 7508, 100000)
      b2 == Times(nb.b[3], 969, 1000) + Times(white, 15385, 100000)
      b3 == Times(nb.b[4], 8665, 10000) + Times(white, 31049, 100000)
      b4 == Times(nb.b[5], 55, 100) + Times(white, 53295, 100000)
      b5 == Times(nb.b[6], 0 - 7616, 10000) - Times(white, 1690, 100000)
      b6 == nb.b[7]
      sum == b0 + b1 + b2 + b3 + b4 + b5 + b6 + Times(white, 5362, 10000)
  IN [nb EXCEPT !.b = <<b0, b1, b2, b3, b4, b5, Times(white, 11593, 100000)>>,
                !.channelData = Append(@, Times(sum, 11, 100))]

GenerateBrown(nb, white) ==
  LET lastOut == Round(100 * nb.last + 2 * white, 102)
  IN [nb EXCEPT !.last = lastOut,
                !.channelData = Append(@, Times(lastOut, 35, 10))]

\* ------------------------------------------------------- idle components
CtlIdle == [isExporting |-> FALSE, audioExporter |-> 0]
WavIdle == [done |-> FALSE, audioBuffer |-> <<>>, file |-> <<>>]
NoiseIdle == NewNoiseBuffer("none", "none")
\* localStorage.getItem of a key that was never set: null
NoItem == [present |-> FALSE, value |-> <<>>]

\* the UIController's keys of localStorage, none set
StorageIdle == [masterVolume |-> NoItem, fadeInDuration |-> NoItem,
                fadeOutDuration |-> NoItem]

\* no UIController constructed
UiIdle == [isPlaying |-> FALSE, masterVolume |-> Absent, timerDuration |-> 0,
           fadeInDuration |-> Absent, fadeOutDuration |-> Absent]

EnvIdle == [sameMs |-> FALSE, lastId |-> 0, offline |-> TRUE, recorder |-> TRUE,
            sampleRate |-> 44100, presets |-> <<>>, saving |-> <<>>,
            storage |-> StorageIdle, ui |-> UiIdle]

\* ------------------------------------------- specification of one track
VolumeInputs == {-1, 0, VolScale \div 2, VolScale, VolScale + 1}
FadeInputs == (0..MaxFade) \cup {-1}

InitTrack ==
  /\ \E kind \in {"isochronic", "noise"}, volume \in VolumeInputs \cup {Absent},
        fadeIn \in FadeInputs \cup {Absent}, fadeOut \in FadeInputs \cup {Absent} :
       tracks = <<NewTrack(kind, volume, fadeIn, fadeOut)>>
  /\ stops = <<>>
  /\ master = NewController(Absent, Absent, Absent)
  /\ stopAlls = <<>>
  /\ timer = TimerIdle
  /\ ctl = CtlIdle
  /\ exps = <<>>
  /\ jobs = <<>>
  /\ tasks = {}
  /\ wav = WavIdle
  /\ noise = NoiseIdle
  /\ env = EnvIdle
  /\ obs = ObsInit(tracks)

NextTrack ==
  \/ \E o \in TrackRefs : TrackStart(o)
  \/ \E o \in TrackRefs : TrackStop(o)
  \/ \E o \in TrackRefs, volume \in VolumeInputs : TrackUpdateVolume(o, volume)
  \/ \E i \in 1..Len(stops) : StopTimeout(i)
  \/ Tick

SpecTrack == InitTrack /\ [][NextTrack]_vars

\* ---------------------------------------- specification of the controller
MaxTracks == 2

InitCtl ==
  /\ tracks = <<>>
  /\ stops = <<>>
  /\ \E mv \in {Absent, VolScale - 1} : master = NewController(mv, 1, 1)
  /\ stopAlls = <<>>
  /\ timer = TimerIdle
  /\ ctl = CtlIdle
  /\ exps = <<>>
  /\ jobs = <<>>
  /\ tasks = {}
  /\ wav = WavIdle
  /\ noise = NoiseIdle
  /\ env = EnvIdle
  /\ obs = ObsInit(tracks)

CtlTrackKinds == {"noise", "other"}

NextCtl ==
  \/ \E type \in CtlTrackKinds, fo \in {Absent, 0} :
       Len(tracks) < MaxTracks /\ CreateTrack(type, VolScale \div 2, Absent, fo)
  \/ \E f \in {Absent, 0, MaxFade} : StartAll(f)
  \/ \E f \in {Absent, 0} : StopAll(f)
  \/ SetMasterVolume(VolScale + 1)
  \/ \E o \in Held(master) : TrackStart(o)
  \/ \E i \in 1..Len(stopAlls) : StopAllTimeout(i)
  \/ \E i \in 1..Len(stops) : StopTimeout(i)
  \/ Tick
  \/ MsPasses

SpecCtl == InitCtl /\ [][NextCtl]_vars

\* ------------------------------------------------------------- C1, C2
Envelope(o) == Value(tracks[o].gain)

\* C1: after a start() that took effect (a restart after a resolved stop()
\* included) and was not followed by setVolume or stop(), the envelope starts
\* at 0, never falls during the fade-in, and equals the configured volume
\* fadeInDuration after the start.
C1_FadeInReachesVolume ==
  \A o \in TrackRefs :
    obs.fade[o].on =>
      /\ obs.fade[o].age = 0 /\ obs.fade[o].len > 0 => Envelope(o) = 0
      /\ Envelope(o) >= obs.fade[o].last
      /\ obs.fade[o].age = obs.fade[o].len => Envelope(o) = obs.cfg[o]

\* C2: when the future of a stop() that was called on a playing track
\* resolves, the envelope is 0, the subgraph is released and the track is
\* idle, also when update({volume}) or another stop() came during the wait.
C2_StopResolvesSilent ==
  \A r \in obs.resolved :
    ~r.idle => /\ Envelope(r.trk) = 0
               /\ ~tracks[r.trk].nodes
               /\ ~tracks[r.trk].isPlaying

\* ------------------------------------------------------------- C7 - C9
MasterEnvelope == Value(master.gain)

\* C7: the gain output of every track created through createTrack feeds the
\* controller's master gain node (and so reaches the destination only
\* through the master envelope).
C7_TracksFeedMaster ==
  \A o \in Held(master) : tracks[o].out = "masterGain"

\* the fade time startAll(f) / stopAll(f) uses
ActualFade(f, default) == IF f # Absent THEN f ELSE default

\* C8: right after startAll(f) the master envelope is 0 (when the fade takes
\* time), rises to masterVolume exactly f later (the controller's default
\* fade-in when f is omitted) and stays there, isPlaying is true and every
\* held track is playing, the ones that were idle with a fade-in begun.
C8_StartAllStartsEverything ==
  obs.op.name = "startAll" =>
    LET d == ActualFade(obs.op.f, master.fadeInDuration)
    IN /\ d > 0 => MasterEnvelope = 0
       /\ \A t \in 0..(d + 1) :
            /\ t < d => ValueAt(master.gain, t) <= ValueAt(master.gain, t + 1)
            /\ t >= d => ValueAt(master.gain, t) = master.masterVolume
       /\ master.isPlaying
       /\ \A o \in Held(master) : tracks[o].isPlaying /\ tracks[o].nodes
       /\ \A o \in obs.op.started : obs.fade[o].on /\ obs.fade[o].age = 0

\* startAll acted on two held tracks, one of them idle before, with a fade
C8_StartAllWitness ==
  /\ obs.op.name = "startAll"
  /\ Cardinality(Held(master)) = 2
  /\ obs.op.started # {}
  /\ ActualFade(obs.op.f, master.fadeInDuration) > 0
  /\ master.masterVolume > 0

C23_CreateTrackDistinctId ==
  obs.op.name = "createTrack" =>
    IF obs.op.type \in Kinds
    THEN /\ obs.op.id # 0
         /\ obs.op.id \notin obs.op.held
         /\ DOMAIN master.map = obs.op.held \cup {obs.op.id}
         /\ master.map[obs.op.id] = Len(tracks)
    ELSE /\ obs.op.id = 0
         /\ DOMAIN master.map = obs.op.held

DurationInputs == {-1, 0, 1, PollTicks, PollTicks + 1}
Callbacks == {1}

\* a controller that holds no track or one noise track: the state after
\* initialize() or createTrack('noise', {volume})
InitTimer ==
  /\ \E n \in {0, 1} :
       /\ env = [EnvIdle EXCEPT !.lastId = n]
       /\ tracks = [o \in 1..n |-> NewTrack("noise", VolScale \div 2, 1, 1)]
       /\ master = [Initialize(NewController(Absent, 1, 1))
                      EXCEPT !.map = [id \in 1..n |-> id]]
  /\ stops = <<>>
  /\ stopAlls = <<>>
  /\ timer = TimerIdle
  /\ ctl = [CtlIdle EXCEPT !.audioExporter = 1]
  /\ exps = ExportersAfterInit(<<>>)
  /\ jobs = <<>>
  /\ tasks = {}
  /\ wav = WavIdle
  /\ noise = NoiseIdle
  /\ obs = ObsInit(tracks)

NextTimer ==
  \/ \E d \in DurationInputs, cb \in Callbacks \cup {Absent} : TimerStart(d, cb)
  \/ TimerStop
  \/ \E h \in DOMAIN timer.live : TimerPoll(h)
  \/ StartAll(Absent)
  \/ \E i \in 1..Len(stopAlls) : StopAllTimeout(i)
  \/ \E i \in 1..Len(stops) : StopTimeout(i)
  \/ Tick

SpecTimer == InitTimer /\ [][NextTimer]_vars

\* C5: at the first poll at which the elapsed time has reached the duration
\* of a timer started with a callback, stopAll() and the callback have each
\* been called exactly once by that timer, and the timer is cleared: no poll
\* pending, remaining time 0.
C5_TimerFiresOnce ==
  obs.op.name = "timerPoll" /\ obs.op.due /\ obs.op.callback # Absent =>
    /\ obs.timer.stopAlls = 1
    /\ obs.timer.callbacks = 1
    /\ timer.interval = Absent
    /\ GetRemainingTime(timer) = 0

\* ------------------------------------------- specification of the exports
\* the browser offers OfflineAudioContext, or MediaRecorder only, or
\* neither; the controller is initialised and holds no track or one
InitExport ==
  /\ \E offline \in BOOLEAN, recorder \in BOOLEAN, n \in {0, 1} :
       /\ offline => recorder
       /\ env = [EnvIdle EXCEPT !.offline = offline, !.recorder = recorder,
                                !.lastId = n]
       /\ tracks = [o \in 1..n |-> NewTrack("noise", VolScale \div 2, 0, 0)]
       /\ master = [Initialize(NewController(Absent, 0, 0))
                      EXCEPT !.map = [id \in 1..n |-> id]]
  /\ stops = <<>>
  /\ stopAlls = <<>>
  /\ timer = TimerIdle
  /\ ctl = [CtlIdle EXCEPT !.audioExporter = 1]
  /\ exps = ExportersAfterInit(<<>>)
  /\ jobs = <<>>
  /\ tasks = {}
  /\ wav = WavIdle
  /\ noise = NoiseIdle
  /\ obs = ObsInit(tracks)

\* the filename and mp3Options.bitRate given to startExport
ExportOptions == {[filename |-> "", bitRate |-> Absent],
                  [filename |-> "custom", bitRate |-> 320]}

NextExport ==
  \/ \E format \in Formats, duration \in 1..MaxFade, o \in ExportOptions :
       StartExport(format, duration, o.filename, o.bitRate)
  \/ StopExport
  \/ CancelExport
  \/ \E t \in tasks, ok \in BOOLEAN : RenderDone(t, ok)
  \/ \E t \in tasks : AutoStop(t)
  \/ \E t \in tasks, data \in BOOLEAN : RecorderStopped(t, data)
  \/ \E t \in tasks, ok \in BOOLEAN : ConvertDone(t, ok)
  \/ \E i \in 1..Len(stopAlls) : StopAllTimeout(i)
  \/ \E i \in 1..Len(stops) : StopTimeout(i)
  \/ Tick

SpecExport == InitExport /\ [][NextExport]_vars

\* job j is active: recording, or rendering, stopping or encoding with a
\* result the code would still deliver
Active(j) ==
  \/ jobs[j].recorder = "recording"
  \/ \E t \in tasks :
       /\ t.job = j
       /\ \/ t.type \in {"render", "convert"}
          \/ t.type = "stop" /\ ~exps[t.exp].exportCancelled

\* C3: at most one export job is active in every reachable state.
C3_SingleActiveJob ==
  Cardinality({j \in DOMAIN jobs : Active(j)}) <= 1

\* C4: the onComplete of a job on which cancelExport succeeded is never
\* called afterwards.
C4_CancelledNeverCompletes ==
  \A j \in DOMAIN jobs : jobs[j].afterCancel = 0

\* job j has no work left
Finished(j) ==
  /\ jobs[j].recorder # "recording"
  /\ \A t \in tasks : t.job # j

\* C10: an accepted job that is not cancelled gets at most one callback,
\* exactly one of onComplete and onError once its work is done, and
\* onComplete only for its own rendered and encoded audio.
C10_ExactlyOneCallback ==
  \A j \in DOMAIN jobs :
    ~jobs[j].cancelled =>
      /\ jobs[j].complete + jobs[j].error <= 1
      /\ Finished(j) => jobs[j].complete + jobs[j].error = 1
      /\ jobs[j].unearned = 0
      /\ jobs[j].complete > 0 => jobs[j].rendered /\ jobs[j].encoded

\* C12: a start request made while an export is active (startExport while
\* isExporting, or startRecording reaching an exporter that is recording or
\* rendering) is rejected, and the active job's filename, MP3 options,
\* format, duration, progress and playback state are what they were, and
\* none of its callbacks was invoked.
C12_RejectedStartLeavesJob ==
  obs.op.name = "startExport" /\ obs.op.active # 0 =>
    /\ obs.op.job = 0
    /\ JobState(exps[obs.op.active], jobs, master) = obs.op.before

\* C13: a real-time capture that a deadline timer stops has recorded for the
\* duration requested for it (no timer of an earlier capture stops it
\* before its own deadline); while it records, its own timer is pending.
C13_AutoStopAtOwnDeadline ==
  /\ obs.op.name = "autoStop" /\ obs.op.stopped # 0 => obs.op.left = 0
  /\ \A j \in DOMAIN jobs : jobs[j].recorder = "recording" =>
       \E t \in tasks : t.type = "autostop" /\ t.job = j

EndOps == {"startExport", "cancelExport", "renderDone", "recorderStopped", "convertDone"}

\* C14: when a real-time export ends (completion, error, cancelExport, or a
\* start that fails), playback that startExport had started for it is
\* stopped or being stopped by a stopAll, and playback that was running
\* before the export is left as it was.
C14_PlaybackRestored ==
  obs.op.name \in EndOps /\ obs.op.ends.real =>
    IF obs.op.ends.started
    THEN ~master.isPlaying \/ Len(stopAlls) > 0
    ELSE master.isPlaying = obs.op.ends.playing /\ Len(stopAlls) = obs.op.ends.n

\* ------------------------------------- specification of the WAV encoder
MaxFrames == 2
Samples == (0 - SampleScale - 1)..(SampleScale + 1)
SampleRates == {8000, 44100, 48000}

InitWav ==
  /\ \E frames \in 0..MaxFrames, channels \in 1..2, sampleRate \in SampleRates :
       \E data \in [1..channels -> [1..frames -> Samples]] :
         wav = [done |-> FALSE,
                audioBuffer |-> [numberOfChannels |-> channels,
                                 sampleRate |-> sampleRate,
                                 channelData |-> data],
                file |-> <<>>]
  /\ tracks = <<>>
  /\ stops = <<>>
  /\ master = NewController(Absent, Absent, Absent)
  /\ stopAlls = <<>>
  /\ timer = TimerIdle
  /\ ctl = CtlIdle
  /\ exps = <<>>
  /\ jobs = <<>>
  /\ tasks = {}
  /\ env = EnvIdle
  /\ noise = NoiseIdle
  /\ obs = ObsInit(tracks)

\* _audioBufferToWav(audioBuffer) is applied
EncodeWav ==
  /\ ~wav.done
  /\ wav' = [wav EXCEPT !.done = TRUE, !.file = AudioBufferToWav(wav.audioBuffer)]
  /\ UNCHANGED <<tracks, stops, master, stopAlls, timer, ctl, exps, jobs, tasks,
                 noise, env, obs>>

NextWav == EncodeWav

SpecWav == InitWav /\ [][NextWav]_vars

\* the little-endian unsigned numbers of a file at a byte offset
Uint16At(file, offset) == file[offset + 1] + 256 * file[offset + 2]
Uint32At(file, offset) == Uint16At(file, offset) + 65536 * Uint16At(file, offset + 2)

PayloadBytes ==
  Len(wav.audioBuffer.channelData[1]) * wav.audioBuffer.numberOfChannels * 2

\* C6: the WAV output is a 44-byte header followed by the payload; the RIFF
\* size field is payloadBytes + 36, the data chunk length is payloadBytes,
\* the byte rate is sampleRate x channels x 2, the block align channels x 2.
C6_WavHeader ==
  wav.done =>
    /\ Len(wav.file) = 44 + PayloadBytes
    /\ Uint32At(wav.file, 4) = PayloadBytes + 36
    /\ Uint32At(wav.file, 40) = PayloadBytes
    /\ Uint32At(wav.file, 28) =
         wav.audioBuffer.sampleRate * wav.audioBuffer.numberOfChannels * 2
    /\ Uint16At(wav.file, 32) = wav.audioBuffer.numberOfChannels * 2

\* C21: the WAV file of a buffer of frames frames and channels channels is
\* frames x channels x 2 + 44 bytes long; the buffer rendered for 5 s at
\* 44100 Hz in stereo has 220500 frames, which gives 882044 bytes.
C21_WavByteLength ==
  /\ wav.done =>
       LET frames == Len(wav.audioBuffer.channelData[1])
           channels == wav.audioBuffer.numberOfChannels
       IN Len(wav.file) = frames * channels * 2 + 44
  /\ OfflineAudioContext(2, TotalSamples(44100, 5 * TicksPerSecond), 44100).length
        * 2 * 2 + 44 = 882044

C21_WavByteLengthWitness ==
  /\ wav.done
  /\ wav.audioBuffer.numberOfChannels = 2
  /\ Len(wav.audioBuffer.channelData[1]) = MaxFrames
  /\ Len(wav.file) = MaxFrames * 4 + 44

\* ------------------------------------ specification of one noise track
NoiseVolumes == {VolScale \div 2, VolScale}

InitNoise ==
  /\ \E volume \in NoiseVolumes, fadeIn \in {0, MaxFade}, fadeOut \in {0, MaxFade} :
       tracks = <<NewNoiseTrack("white", volume, fadeIn, fadeOut)>>
  /\ stops = <<>>
  /\ master = NewController(Absent, Absent, Absent)
  /\ stopAlls = <<>>
  /\ timer = TimerIdle
  /\ ctl = CtlIdle
  /\ exps = <<>>
  /\ jobs = <<>>
  /\ tasks = {}
  /\ wav = WavIdle
  /\ noise = NoiseIdle
  /\ env = EnvIdle
  /\ obs = ObsInit(tracks)

NextNoise ==
  \/ \E o \in TrackRefs : TrackStart(o)
  \/ \E o \in TrackRefs : TrackStop(o)
  \/ \E o \in TrackRefs, noiseType \in {"white", "brown", "grey"} :
       TrackUpdateNoise(o, noiseType)
  \/ \E o \in TrackRefs, volume \in NoiseVolumes : TrackUpdateVolume(o, volume)
  \/ \E i \in 1..Len(stops) : StopTimeout(i)
  \/ Tick

SpecNoise == InitNoise /\ [][NextNoise]_vars

\* C11: when the restart of a colour change on a playing noise track runs,
\* the old source has been faded out (envelope 0) and torn down, a source of
\* the colour asked for is playing, and the envelope settles at the volume
\* the track was configured with when update() was called.
C11_ColourChangeRestarts ==
  \A r \in obs.restarted :
    /\ r.before = 0
    /\ tracks[r.trk].isPlaying
    /\ tracks[r.trk].nodes
    /\ tracks[r.trk].source = tracks[r.trk].noiseType
    /\ \A t \in RampTime..(RampTime + MaxFade) :
         ValueAt(tracks[r.trk].gain, t) = r.volume

\* ------------------------- specification of the offline graph's cloning
\* a browser with OfflineAudioContext; the controller is initialised and
\* holds one track; the track goes through its lifecycle before and
\* between the exports
CloneDurations == {MaxFade, DefaultFadeOut, DefaultFadeIn + DefaultFadeOut}

InitClone ==
  /\ env = [EnvIdle EXCEPT !.lastId = 1]
  /\ \E kind \in Kinds, fadeIn \in {0, MaxFade}, fadeOut \in {0, MaxFade} :
       tracks = <<NewTrack(kind, VolScale \div 2, fadeIn, fadeOut)>>
  /\ master = [Initialize(NewController(VolScale, 1, 1)) EXCEPT !.map = <<1>>]
  /\ stops = <<>>
  /\ stopAlls = <<>>
  /\ timer = TimerIdle
  /\ ctl = [CtlIdle EXCEPT !.audioExporter = 1]
  /\ exps = ExportersAfterInit(<<>>)
  /\ jobs = <<>>
  /\ tasks = {}
  /\ wav = WavIdle
  /\ noise = NoiseIdle
  /\ obs = ObsInit(tracks)

NextClone ==
  \/ \E o \in TrackRefs : TrackStart(o)
  \/ \E o \in TrackRefs : TrackStop(o)
  \/ \E i \in 1..Len(stops) : StopTimeout(i)
  \/ \E duration \in CloneDurations : StartExport("wav", duration, "", Absent)
  \/ \E t \in tasks : RenderDone(t, TRUE)
  \/ Tick

SpecClone == InitClone /\ [][NextClone]_vars

\* C15: in every offline graph each cloned track's envelope is 0 at render
\* time 0 and reaches the clone's volume fadeInDuration later, stays there
\* until durationSeconds - fadeOutDuration and is 0 at durationSeconds, the
\* fade durations being the live track's (0 included); the fade-out is
\* left out only when fadeOutDuration exceeds the render duration.
C15_CloneFades ==
  \A e \in DOMAIN exps : \A o \in DOMAIN exps[e].offlineGraph.clones :
    LET c == exps[e].offlineGraph.clones[o]
        d == exps[e].recordingDuration
        fi == tracks[o].fadeInDuration
        fo == tracks[o].fadeOutDuration
    IN /\ fi > 0 => ValueAt(c.gain, 0) = 0
       /\ fi + fo <= d => \A t \in fi..(d - fo) : ValueAt(c.gain, t) = c.volume
       /\ fo <= d => ValueAt(c.gain, d) = 0

\* C16: when an export starts on the offline path, the gain of the offline
\* output node equals the master volume and the volume of every cloned
\* track equals the volume its live track is configured with, whatever the
\* lifecycle state of the live track and the master envelope.
C16_CloneVolumes ==
  obs.op.name = "startExport" /\ obs.op.job # 0 =>
    LET graph == exps[jobs[obs.op.job].exp].offlineGraph
    IN graph.built =>
         /\ graph.gain = master.masterVolume
         /\ \A o \in DOMAIN graph.clones : graph.clones[o].volume = obs.cfg[o]

\* ------------------------------ specification of the export's duration
\* a browser with OfflineAudioContext or with MediaRecorder only, an audio
\* context of some sample rate; exports are requested with durations inside
\* and outside [1 s, 3600 s] and end without time passing
DurationRequests ==
  {0 - TicksPerSecond, 0, TicksPerSecond \div 2, TicksPerSecond, TicksPerSecond + 1,
   MaxDuration, MaxDuration + 1}

InitDuration ==
  /\ \E offline \in BOOLEAN, sampleRate \in {11025, 44100, 48000}, n \in {0, 1} :
       /\ env = [EnvIdle EXCEPT !.offline = offline, !.sampleRate = sampleRate,
                                !.lastId = n]
       /\ tracks = [o \in 1..n |-> NewTrack("noise", VolScale \div 2, 0, 0)]
       /\ master = [Initialize(NewController(Absent, 0, 0))
                      EXCEPT !.map = [id \in 1..n |-> id]]
  /\ stops = <<>>
  /\ stopAlls = <<>>
  /\ timer = TimerIdle
  /\ ctl = [CtlIdle EXCEPT !.audioExporter = 1]
  /\ exps = ExportersAfterInit(<<>>)
  /\ jobs = <<>>
  /\ tasks = {}
  /\ wav = WavIdle
  /\ noise = NoiseIdle
  /\ obs = ObsInit(tracks)

NextDuration ==
  \/ \E format \in Formats, duration \in DurationRequests :
       StartExport(format, duration, "", Absent)
  \/ CancelExport
  \/ \E t \in tasks : RenderDone(t, TRUE)
  \/ \E t \in tasks : AutoStop(t)
  \/ \E t \in tasks : RecorderStopped(t, TRUE)
  \/ \E t \in tasks : ConvertDone(t, TRUE)
  \/ \E i \in 1..Len(stopAlls) : StopAllTimeout(i)
  \/ \E i \in 1..Len(stops) : StopTimeout(i)

SpecDuration == InitDuration /\ [][NextDuration]_vars

\* C17: the duration an accepted export uses for rendering, progress and
\* auto-stop lies in [1 s, 3600 s], whatever duration was requested.
C17_DurationInRange ==
  obs.op.name = "startExport" /\ obs.op.job # 0 =>
    LET x == exps[jobs[obs.op.job].exp]
    IN /\ x.recordingDuration >= TicksPerSecond
       /\ x.recordingDuration <= MaxDuration

\* Math.round(a / b) for a >= 0, b > 0

\* C20: for an export accepted on the offline path, the offline context has
\* 2 channels, the audio context's sample rate r and a length within one
\* frame of round(r x the duration used), which is round(r x d) for every
\* requested duration d in [1 s, 3600 s].
C20_OfflineLength ==
  obs.op.name = "startExport" /\ obs.op.job # 0 /\ jobs[obs.op.job].fast =>
    LET x == exps[jobs[obs.op.job].exp]
        c == x.offlineContext
        exact == Round(env.sampleRate * x.recordingDuration, TicksPerSecond)
    IN /\ c.numberOfChannels = 2
       /\ c.sampleRate = env.sampleRate
       /\ c.length - exact <= 1
       /\ exact - c.length <= 1
       /\ obs.op.duration >= TicksPerSecond /\ obs.op.duration <= MaxDuration =>
            x.recordingDuration = obs.op.duration

\* an offline export was accepted whose duration is no whole number of frames
C20_OfflineLengthWitness ==
  /\ obs.op.name = "startExport" /\ obs.op.job # 0 /\ jobs[obs.op.job].fast
  /\ obs.op.duration > TicksPerSecond /\ obs.op.duration < MaxDuration
  /\ (env.sampleRate * obs.op.duration) % TicksPerSecond # 0
  /\ exps[jobs[obs.op.job].exp].offlineContext.length > 0
\* ------------------------------------- specification of export progress
\* exports of 200 ms whose progress interval fires every 100 ms,
\* on a browser with OfflineAudioContext or with MediaRecorder only; the
\* controller holds no track, so that stopAll returns at once
ProgressDurations == {2}

InitProgress ==
  /\ \E offline \in BOOLEAN :
       env = [EnvIdle EXCEPT !.offline = offline]
  /\ tracks = <<>>
  /\ master = Initialize(NewController(Absent, 0, 0))
  /\ stops = <<>>
  /\ stopAlls = <<>>
  /\ timer = TimerIdle
  /\ ctl = [CtlIdle EXCEPT !.audioExporter = 1]
  /\ exps = ExportersAfterInit(<<>>)
  /\ jobs = <<>>
  /\ tasks = {}
  /\ wav = WavIdle
  /\ noise = NoiseIdle
  /\ obs = ObsInit(tracks)

NextProgress ==
  \/ \E format \in Formats, duration \in ProgressDurations :
       StartExport(format, duration, "", Absent)
  \/ StopExport
  \/ CancelExport
  \/ \E t \in tasks, ok \in BOOLEAN : RenderDone(t, ok)
  \/ \E t \in tasks : AutoStop(t)
  \/ \E t \in tasks, data \in BOOLEAN : RecorderStopped(t, data)
  \/ \E t \in tasks, ok \in BOOLEAN : ConvertDone(t, ok)
  \/ ProgressTick

SpecProgress == InitProgress /\ [][NextProgress]_vars

\* C18: the export progress lies in [0, 100]; the values a job's onProgress
\* is given lie in [0, 100] and never decrease; a job on the offline path is
\* given more than 90 only once its rendering has finished and 100 only once
\* its audio is encoded; a job that is recording was given no more than
\* elapsed / duration, capped at 100.
C18_ProgressReports ==
  /\ \A e \in DOMAIN exps : exps[e].exportProgress \in 0..100
  /\ \A j \in DOMAIN jobs :
       LET x == exps[jobs[j].exp]
           given == jobs[j].progress
       IN given # Absent =>
            /\ given \in 0..100
            /\ ~jobs[j].regress
            /\ jobs[j].fast /\ given > 90 => jobs[j].rendered
            /\ jobs[j].fast /\ given = 100 => jobs[j].encoded
            /\ jobs[j].recorder = "recording" /\ x.isRecording /\ x.mediaRecorder = j =>
                 given <= RealTimeProgress(x.elapsed, x.recordingDuration)

\* ------------------------------------- specification of a noise buffer
\* One channel of a noise buffer of BufferSize frames is filled by the live
\* track's generator or by the offline clone's; a draw is -1, 0 or the
\* largest value below 1, and changes at most MaxTurns times in a buffer.
MaxTurns == 1
Draws == {0 - NoiseScale, 0, NoiseScale - 1}

InitNoiseBuffer ==
  /\ \E generator \in {"live", "offline"}, noiseType \in Colours :
       noise = NewNoiseBuffer(generator, noiseType)
  /\ tracks = <<>>
  /\ stops = <<>>
  /\ master = NewController(Absent, Absent, Absent)
  /\ stopAlls = <<>>
  /\ timer = TimerIdle
  /\ ctl = CtlIdle
  /\ exps = <<>>
  /\ jobs = <<>>
  /\ tasks = {}
  /\ wav = WavIdle
  /\ env = EnvIdle
  /\ obs = ObsInit(tracks)

\* one pass of the generator's loop, with the draw white
GenerateSample(white) ==
  LET turns == IF noise.draw \in {Absent, white} THEN noise.turns ELSE noise.turns + 1
      nb == [noise EXCEPT !.draw = white, !.turns = turns]
  IN /\ Len(noise.channelData) < BufferSize
     /\ turns <= MaxTurns
     /\ noise' = CASE nb.generator = "live" /\ nb.noiseType = "white" ->
                       CreateWhiteNoiseSample(nb, white)
                   [] nb.generator = "live" /\ nb.noiseType = "pink" ->
                       CreatePinkNoiseSample(nb, white)
                   [] nb.generator = "live" /\ nb.noiseType = "brown" ->
                       CreateBrownNoiseSample(nb, white)
                   [] nb.generator = "offline" /\ nb.noiseType = "white" ->
                       GenerateWhite(nb, white)
                   [] nb.generator = "offline" /\ nb.noiseType = "pink" ->
                       GeneratePink(nb, white)
                   [] nb.generator = "offline" /\ nb.noiseType = "brown" ->
                       GenerateBrown(nb, white)
     /\ UNCHANGED <<tracks, stops, master, stopAlls, timer, ctl, exps, jobs, tasks,
                    wav, env, obs>>

\* the normalising loop of the live pink and brown generators
NormalizeSamples ==
  /\ noise.generator = "live"
  /\ noise.noiseType \in {"pink", "brown"}
  /\ Len(noise.channelData) = BufferSize
  /\ ~noise.normalized
  /\ noise' = NormalizeBuffer(noise)
  /\ UNCHANGED <<tracks, stops, master, stopAlls, timer, ctl, exps, jobs, tasks,
                 wav, env, obs>>

NextNoiseBuffer ==
  \/ \E white \in Draws : GenerateSample(white)
  \/ NormalizeSamples

SpecNoiseBuffer == InitNoiseBuffer /\ [][NextNoiseBuffer]_vars

\* the buffer is as the generator leaves it
BufferDone ==
  /\ Len(noise.channelData) = BufferSize
  /\ noise.generator = "live" /\ noise.noiseType \in {"pink", "brown"} => noise.normalized

\* C19: every sample of a buffer that a noise generator of either kind has
\* filled is a number in [-1, 1]; the offline generators, which do not
\* normalise, keep every sample in [-1, 1] as they write it.
C19_SamplesInRange ==
  noise.generator = "offline" \/ BufferDone =>
    \A i \in DOMAIN noise.channelData :
      /\ noise.channelData[i] # NaN
      /\ Abs(noise.channelData[i]) <= NoiseScale

\* ------------------------------- specification of the size estimate
\* estimates are asked for before, during and after exports, with the
\* exporter's MP3 bitrate as constructed or as set by an export
EstimateDurations == {0, 1, 5 * TicksPerSecond, DefaultDuration}
EstimateBitRates == {Absent, 0, 5, DefaultBitRate}

InitEstimate ==
  /\ \E offline \in BOOLEAN, sampleRate \in {11025, 44100, 48000} :
       env = [EnvIdle EXCEPT !.offline = offline, !.sampleRate = sampleRate]
  /\ tracks = <<>>
  /\ master = Initialize(NewController(Absent, 0, 0))
  /\ stops = <<>>
  /\ stopAlls = <<>>
  /\ timer = TimerIdle
  /\ ctl = [CtlIdle EXCEPT !.audioExporter = 1]
  /\ exps = ExportersAfterInit(<<>>)
  /\ jobs = <<>>
  /\ tasks = {}
  /\ wav = WavIdle
  /\ noise = NoiseIdle
  /\ obs = ObsInit(tracks)

NextEstimate ==
  \/ \E format \in Formats, o \in ExportOptions :
       StartExport(format, TicksPerSecond, o.filename, o.bitRate)
  \/ CancelExport
  \/ \E t \in tasks : RenderDone(t, TRUE)
  \/ \E t \in tasks : RecorderStopped(t, TRUE)
  \/ \E d \in EstimateDurations, format \in Formats \cup {"ogg"}, bitRate \in EstimateBitRates :
       EstimateFileSize(d, format, bitRate)

SpecEstimate == InitEstimate /\ [][NextEstimate]_vars

\* C22: calculateEstimatedFileSize(d, format, bitRate) returns, rounded up
\* to whole bytes, d x sampleRate x 2 x 2 + 44 for wav and d x bitRate x
\* 1000 / 8 for mp3, the bitrate being the configured one when none is given
\* (60 s at 192 kbps: 1440000); the call changes nothing of the controller,
\* the exporters, the jobs or the work under way.
C22_EstimatedFileSize ==
  /\ [](obs.op.name = "calculateEstimatedFileSize" /\ obs.op.bytes # Absent =>
          LET d == obs.op.duration
              rate == IF obs.op.bitRate \in {Absent, 0} THEN obs.op.configured
                      ELSE obs.op.bitRate
              wavTenths == d * obs.op.sampleRate * 2 * 2 + 44 * TicksPerSecond
              mp3Tenths == d * rate * 125
          IN /\ obs.op.format = "wav" =>
                  /\ TicksPerSecond * obs.op.bytes >= wavTenths
                  /\ TicksPerSecond * obs.op.bytes < wavTenths + TicksPerSecond
             /\ obs.op.format = "mp3" =>
                  /\ TicksPerSecond * obs.op.bytes >= mp3Tenths
                  /\ TicksPerSecond * obs.op.bytes < mp3Tenths + TicksPerSecond
                  /\ d = 60 * TicksPerSecond /\ rate = 192 => obs.op.bytes = 1440000)
  /\ [][obs'.op.name = "calculateEstimatedFileSize" =>
          UNCHANGED <<tracks, stops, master, stopAlls, timer, ctl, exps, jobs, tasks>>]_vars

C22_EstimatedFileSizeWitness ==
  /\ obs.op.name = "calculateEstimatedFileSize"
  /\ obs.op.format = "mp3"
  /\ obs.op.bitRate = Absent
  /\ obs.op.configured = 320
  /\ obs.op.duration = DefaultDuration
  /\ obs.op.bytes = 2400000
  /\ ctl.isExporting

\* ------------------------------- specification of the offline graph
\* a controller not yet initialised, in a browser with OfflineAudioContext;
\* tracks of no fade-out are created, started and removed between exports
GraphKinds == {"noise", "isochronic"}
GraphIds == 1..2

InitGraph ==
  /\ tracks = <<>>
  /\ stops = <<>>
  /\ master = NewController(Absent, Absent, Absent)
  /\ stopAlls = <<>>
  /\ timer = TimerIdle
  /\ ctl = CtlIdle
  /\ exps = <<>>
  /\ jobs = <<>>
  /\ tasks = {}
  /\ wav = WavIdle
  /\ noise = NoiseIdle
  /\ env = EnvIdle
  /\ obs = ObsInit(tracks)

NextGraph ==
  \/ \E type \in GraphKinds :
       Len(tracks) < MaxTracks /\ CreateTrack(type, VolScale, 0, 0)
  \/ \E id \in GraphIds : RemoveTrack(id)
  \/ \E o \in Held(master) : TrackStart(o)
  \/ \E i \in 1..Len(stops) : StopTimeout(i)
  \/ StartExport("wav", TicksPerSecond, "", Absent)
  \/ \E t \in tasks : RenderDone(t, TRUE)
  \/ MsPasses

SpecGraph == InitGraph /\ [][NextGraph]_vars

\* C29: the graph built for an offline export holds the test tone exactly
\* when the controller holds no track at the time of startExport, and else
\* one clone, of the same kind, for each track the controller holds then,
\* tracks created or removed since the exporter was first set up included.
C29_GraphClonesHeldTracks ==
  obs.op.name = "startExport" /\ obs.op.job # 0 =>
    LET graph == exps[jobs[obs.op.job].exp].offlineGraph
    IN /\ graph.built
       /\ graph.tone <=> Held(master) = {}
       /\ DOMAIN graph.clones = Held(master)
       /\ \A o \in Held(master) : graph.clones[o].kind = tracks[o].kind

\* a second export, started after the track of the first export was removed
\* and another track created
C29_GraphClonesHeldTracksWitness ==
  /\ obs.op.name = "startExport" /\ obs.op.job = 2
  /\ Len(tracks) = 2 /\ Cardinality(Held(master)) = 1
  /\ DOMAIN exps[jobs[2].exp].offlineGraph.clones = Held(master)
  /\ DOMAIN exps[jobs[1].exp].offlineGraph.clones # Held(master)
  /\ ~exps[jobs[2].exp].offlineGraph.tone

\* ------------------------------------------------------------------ C28
\* C28: stopExport() called while the exporter is rendering offline changes
\* nothing: the controller still counts the export as active (isExporting,
\* so that a new startExport is rejected), the progress interval of the
\* exporter stays set, and the render and its job go on as they were.
C28_StopExportDuringRender ==
  [][obs'.op.name = "stopExport" /\ ~obs'.op.rejected
       /\ exps[ctl.audioExporter].isOfflineRendering
       => /\ ctl'.isExporting = ctl.isExporting
          /\ exps'[ctl.audioExporter].throttleInterval
               = exps[ctl.audioExporter].throttleInterval
          /\ exps'[ctl.audioExporter].isOfflineRendering
          /\ UNCHANGED <<jobs, tasks>>]_vars

\* the part of it that is about the render and its job
StopExportLeavesRender ==
  [][obs'.op.name = "stopExport" /\ ~obs'.op.rejected
       /\ exps[ctl.audioExporter].isOfflineRendering
       => /\ exps'[ctl.audioExporter].isOfflineRendering
          /\ UNCHANGED <<jobs, tasks>>]_vars

\* ------------------------------------------------------------------ C27
\* C27: at most one poll interval is set at any time, the one timerInterval
\* holds; a poll fires a whole number of poll periods after the latest
\* startTimer, and it calls stopAll only when the duration given to the
\* latest startTimer has passed since that call: a timer that was replaced
\* triggers nothing; startTimer with a duration <= 0 leaves no interval set
\* and no time remaining.
C27_StartTimerReplaces ==
  /\ Cardinality(DOMAIN timer.live) <= 1
  /\ DOMAIN timer.live = IF timer.interval = Absent THEN {} ELSE {timer.interval}
  /\ obs.op.name = "timerPoll" =>
       /\ obs.op.elapsed > 0 /\ obs.op.elapsed % PollTicks = 0
       /\ obs.op.due <=> obs.op.elapsed >= obs.op.duration
  /\ obs.op.name = "startTimer" /\ obs.op.duration <= 0 =>
       /\ DOMAIN timer.live = {} /\ timer.interval = Absent
       /\ GetRemainingTime(timer) = 0
  /\ obs.op.name = "startTimer" /\ obs.op.duration > 0 =>
       /\ timer.elapsed = 0 /\ timer.live[timer.interval] = PollTicks
       /\ GetRemainingTime(timer) = obs.op.duration

\* a timer that had been pending for less than a poll period was replaced
C27_StartTimerReplacesWitness ==
  /\ obs.op.name = "startTimer" /\ obs.op.duration > 0
  /\ obs.op.pending /\ obs.op.elapsed % PollTicks # 0
  /\ Cardinality(DOMAIN timer.live) = 1

\* ------------------------------------------------------------------ C25
\* C25: start() on a track that is playing, the fade-out wait of a stop()
\* included, changes nothing (no subgraph built, no ramp scheduled, same
\* lifecycle state); on an idle track, which holds no subgraph, it builds
\* the subgraph of its kind and the track becomes playing.
C25_StartOnlyWhenIdle ==
  [][\A o \in TrackRefs :
       obs'.op.name = "start" /\ obs'.op.trk = o =>
         IF tracks[o].isPlaying
         THEN tracks' = tracks /\ stops' = stops
         ELSE /\ ~tracks[o].nodes
              /\ tracks'[o].nodes /\ tracks'[o].isPlaying
              /\ tracks[o].kind = "noise" =>
                   tracks'[o].source = CreateNoiseBuffer(tracks[o].noiseType)
              /\ stops' = stops]_vars

\* start() was called during the fade-out wait of a stop() and did nothing
C25_StartOnlyWhenIdleWitness ==
  /\ obs.op.name = "start" /\ ~obs.op.took
  /\ tracks[obs.op.trk].isPlaying
  /\ \E i \in 1..Len(stops) : stops[i].trk = obs.op.trk /\ stops[i].rem > 0

\* ------------------------------------------------------------------ C26
\* C26: startAll, stopAll and setMasterVolume called on a controller that is
\* playing, with a fade that takes time, supersede the pending ramp of the
\* master envelope and start from its current value: the value of the
\* master envelope is the same right after the call as right before it, and
\* the call leaves one ramp pending.
RampOps == {"stopAll", "setMasterVolume"}

RampTakesTime(op, m) ==
  CASE op.name = "startAll" -> (IF op.f = Absent THEN m.fadeInDuration ELSE op.f) > 0
    [] op.name = "stopAll" -> (IF op.f = Absent THEN m.fadeOutDuration ELSE op.f) > 0
    [] OTHER -> TRUE

C26_NoEnvelopeJump ==
  [][obs'.op.name \in RampOps \cup {"startAll"} /\ master.isPlaying
       /\ RampTakesTime(obs'.op, master)
       => /\ Value(master'.gain) = Value(master.gain)
          /\ Len(master'.gain) = 2 /\ master'.gain[2].k = "ramp"]_vars

\* the same of setMasterVolume and stopAll alone
NoEnvelopeJumpButStartAll ==
  [][obs'.op.name \in RampOps /\ master.isPlaying /\ RampTakesTime(obs'.op, master)
       => /\ Value(master'.gain) = Value(master.gain)
          /\ Len(master'.gain) = 2 /\ master'.gain[2].k = "ramp"]_vars

\* ------------------------------------ specification of volumes and fades
SettingsVolumes == {0 - 1, VolScale + 1, NaN}
SettingsFades == {0 - 1, MaxFade, NaN}

InitSettings ==
  /\ tracks = <<>>
  /\ stops = <<>>
  /\ \E mv \in {Absent, VolScale + 1}, fi \in {Absent, NaN}, fo \in {0 - 1, 0} :
       master = NewController(mv, fi, fo)
  /\ stopAlls = <<>>
  /\ timer = TimerIdle
  /\ ctl = CtlIdle
  /\ exps = <<>>
  /\ jobs = <<>>
  /\ tasks = {}
  /\ wav = WavIdle
  /\ noise = NoiseIdle
  /\ env = EnvIdle
  /\ obs = ObsInit(tracks)

NextSettings ==
  \/ \E volume \in SettingsVolumes \cup {Absent}, fadeIn \in {Absent, 0 - 1} :
       Len(tracks) < 1 /\ CreateTrack("noise", volume, fadeIn, Absent)
  \/ \E o \in Held(master), volume \in SettingsVolumes : TrackUpdateVolume(o, volume)
  \/ \E o \in Held(master), fadeIn \in SettingsFades, fadeOut \in {Absent, 0 - 1} :
       UpdateTrackFades(o, fadeIn, fadeOut)
  \/ \E volume \in SettingsVolumes : SetMasterVolume(volume)
  \/ \E duration \in SettingsFades : SetFadeInDuration(duration)
  \/ \E duration \in SettingsFades : SetFadeOutDuration(duration)
  \/ \E o \in Held(master) : TrackStart(o)

SpecSettings == InitSettings /\ [][NextSettings]_vars

\* the value an envelope is set to or heading for
VolumeTarget(p) == p[Len(p)].v

InUnitRange(v) == v # NaN /\ 0 <= v /\ v <= VolScale

\* C24: after any sequence of construction, createTrack, updateTrack,
\* setVolume, setMasterVolume, setFadeInDuration and setFadeOutDuration with
\* arbitrary numbers, masterVolume and every track's volume target lie in
\* [0,1], every fade duration of the controller and of a track is >= 0, and
\* a fade duration that is not >= 0 leaves the previous value in place.
C24_SettingsInRange ==
  /\ InUnitRange(master.masterVolume)
  /\ master.fadeInDuration >= 0 /\ master.fadeOutDuration >= 0
  /\ \A o \in TrackRefs :
       /\ InUnitRange(VolumeTarget(tracks[o].gain))
       /\ tracks[o].fadeInDuration >= 0 /\ tracks[o].fadeOutDuration >= 0
  /\ obs.op.name = "setFadeInDuration" /\ ~(obs.op.duration >= 0)
       => master.fadeInDuration = obs.op.prev
  /\ obs.op.name = "setFadeOutDuration" /\ ~(obs.op.duration >= 0)
       => master.fadeOutDuration = obs.op.prev
  /\ obs.op.name = "updateTrackFades" /\ ~(obs.op.fadeIn >= 0)
       => tracks[obs.op.trk].fadeInDuration = obs.op.prevIn
  /\ obs.op.name = "updateTrackFades" /\ ~(obs.op.fadeOut >= 0)
       => tracks[obs.op.trk].fadeOutDuration = obs.op.prevOut

\* the same with masterVolume left out: the part of C24 that holds
SettingsInRangeButMaster ==
  /\ master.fadeInDuration >= 0 /\ master.fadeOutDuration >= 0
  /\ \A o \in TrackRefs :
       /\ InUnitRange(VolumeTarget(tracks[o].gain))
       /\ tracks[o].fadeInDuration >= 0 /\ tracks[o].fadeOutDuration >= 0

\* ---------------------------------------------------------- PresetManager
\* env.presets is the object store 'presets' of IndexedDB, in the order of
\* the cursor; env.saving holds the savePreset calls whose transactions have
\* not run yet.  A string is a sequence of characters.
Chars == {"a", "A", " "}

\* String.prototype.toLowerCase
ToLowerCase(str) == [i \in 1..Len(str) |-> IF str[i] = "A" THEN "a" ELSE str[i]]

RECURSIVE TrimStart(_)
TrimStart(str) == IF str # <<>> /\ Head(str) = " " THEN TrimStart(Tail(str)) ELSE str

RECURSIVE TrimEnd(_)
TrimEnd(str) ==
  IF str # <<>> /\ str[Len(str)] = " " THEN TrimEnd(SubSeq(str, 1, Len(str) - 1)) ELSE str

\* String.prototype.trim
Trim(str) == TrimEnd(TrimStart(str))

\* the cursor's test in findPresetByName
NameMatches(preset, name) == ToLowerCase(preset.name) = Trim(ToLowerCase(name))

\* PresetManager.findPresetByName: whether a preset is found
FindPresetByName(presets, name) == \E i \in 1..Len(presets) : NameMatches(presets[i], name)

\* store.add(preset): a key that is in the store already is a ConstraintError
StoreAdd(presets, preset) ==
  IF \E i \in 1..Len(presets) : presets[i].id = preset.id THEN presets
  ELSE Append(presets, preset)

MaxPresets == 2
MaxSaves == 2

\* PresetManager.savePreset(name, configuration) up to its await: the
\* arguments are validated (an empty name and a null configuration throw)
SavePreset(name, configuration) ==
  LET invalid == name = <<>> \/ configuration = Absent
  IN /\ Len(env.saving) < MaxSaves
     /\ Len(env.presets) + Len(env.saving) < MaxPresets
     /\ env' = IF invalid THEN env
               ELSE [env EXCEPT !.saving = Append(@, [name |-> name,
                                                      configuration |-> configuration])]
     /\ obs' = ObsOp(obs, [name |-> "savePreset", threw |-> invalid])
     /\ UNCHANGED <<tracks, stops, master, stopAlls, timer, ctl, exps, jobs, tasks,
                    wav, noise>>

\* the transactions of a savePreset run: findPresetByName, then, the error
\* thrown for a preset that exists being caught and (its message holding
\* 'already exists') not thrown again, store.add of the preset under the id
\* Date.now().toString()
SavePresetFound(i) ==
  LET call == env.saving[i]
      existing == FindPresetByName(env.presets, call.name)
      id == IF env.sameMs THEN env.lastId ELSE env.lastId + 1
      preset == [id |-> id, name |-> Trim(call.name), configuration |-> call.configuration]
      added == StoreAdd(env.presets, preset)
  IN /\ env' = [env EXCEPT !.saving = [k \in 1..(Len(@) - 1) |->
                                         IF k < i THEN @[k] ELSE @[k + 1]],
                           !.presets = added, !.sameMs = TRUE, !.lastId = id]
     /\ obs' = ObsOp(obs, [name |-> "savePresetFound", existing |-> existing,
                           threw |-> added = env.presets, before |-> env.presets])
     /\ UNCHANGED <<tracks, stops, master, stopAlls, timer, ctl, exps, jobs, tasks,
                    wav, noise>>

\* ------------------------------------------- specification of the presets
PresetNames == {<<>>} \cup {<<c>> : c \in Chars} \cup {<<c, d>> : c, d \in Chars}

InitPreset ==
  /\ tracks = <<>>
  /\ stops = <<>>
  /\ master = NewController(Absent, Absent, Absent)
  /\ stopAlls = <<>>
  /\ timer = TimerIdle
  /\ ctl = CtlIdle
  /\ exps = <<>>
  /\ jobs = <<>>
  /\ tasks = {}
  /\ wav = WavIdle
  /\ noise = NoiseIdle
  /\ env = EnvIdle
  /\ obs = ObsInit(tracks)

NextPreset ==
  \/ \E name \in PresetNames, configuration \in {Absent, 1} : SavePreset(name, configuration)
  \/ \E i \in 1..Len(env.saving) : SavePresetFound(i)
  \/ MsPasses

SpecPreset == InitPreset /\ [][NextPreset]_vars

\* C30: a savePreset that finds a preset whose name matches the trimmed name
\* without regard to case throws and leaves the store as it was, and no two
\* presets of the store have the same name.
C30_SavePresetRejectsDuplicate ==
  /\ obs.op.name = "savePresetFound" /\ obs.op.existing =>
       obs.op.threw /\ env.presets = obs.op.before
  /\ \A i, k \in 1..Len(env.presets) :
       i # k => env.presets[i].name # env.presets[k].name

\* ------------------------------------- configurations (presetManager.js)
\* the ids of the controller's Map, in insertion order
MapOrder(m) ==
  [n \in 1..Cardinality(DOMAIN m.map) |->
     CHOOSE id \in DOMAIN m.map : Cardinality({q \in DOMAIN m.map : q < id}) = n - 1]

\* PresetManager.createConfigurationFromAudioController: the volume of a
\* track is track.getVolume(), the live value of its gain parameter
CreateConfigurationFromAudioController(m, trs, t) ==
  [ masterVolume |-> m.masterVolume,
    timerDuration |-> GetRemainingTime(t),
    fadeInDuration |-> m.fadeInDuration,
    fadeOutDuration |-> m.fadeOutDuration,
    tracks |-> [n \in DOMAIN MapOrder(m) |->
                  LET tr == trs[m.map[MapOrder(m)[n]]]
                  IN [ type |-> tr.kind,
                       volume |-> GetVolume(tr),
                       noiseType |-> tr.noiseType,
                       carrierFrequency |-> tr.carrierFrequency,
                       beatFrequency |-> tr.beatFrequency ]] ]

\* AudioController.createTrack(trackConfig.type, trackConfig) on controller m:
\* the track the constructor of that type builds
TrackOfConfiguration(m, c) ==
  CASE c.type = "noise" ->
         NewNoiseTrack(c.noiseType, c.volume, m.fadeInDuration, m.fadeOutDuration)
    [] c.type = "isochronic" ->
         NewIsochronicTrack(c.carrierFrequency, c.beatFrequency, c.volume,
                            m.fadeInDuration, m.fadeOutDuration)
    [] OTHER -> NewTrack(c.type, c.volume, m.fadeInDuration, m.fadeOutDuration)

\* PresetManager.applyConfigurationToAudioController on a controller that was
\* just constructed (not playing, no track): the settings, one createTrack
\* per stored track and the timer; sameMs tells whether the createTrack calls
\* of the loop all read the same Date.now()
ApplyConfigurationToAudioController(configuration, sameMs) ==
  LET m0 == Initialize(NewController(Absent, Absent, Absent))
      m1 == SetMasterVolumeOn(m0, configuration.masterVolume)
      m2 == IF configuration.fadeInDuration >= 0
            THEN [m1 EXCEPT !.fadeInDuration = configuration.fadeInDuration] ELSE m1
      m3 == IF configuration.fadeOutDuration >= 0
            THEN [m2 EXCEPT !.fadeOutDuration = configuration.fadeOutDuration] ELSE m2
      n == Len(configuration.tracks)
      id(k) == IF sameMs THEN 1 ELSE k
      ids == {id(k) : k \in 1..n}
  IN [ master |-> [m3 EXCEPT !.map = [i \in ids |-> Max({k \in 1..n : id(k) = i})]],
       tracks |-> [k \in 1..n |-> TrackOfConfiguration(m3, configuration.tracks[k])],
       timer |-> IF configuration.timerDuration > 0
                 THEN StartTimer(TimerIdle, configuration.timerDuration, Absent)
                 ELSE TimerIdle ]

\* createConfigurationFromAudioController(controller) and then
\* applyConfigurationToAudioController(new AudioController(), configuration)
ApplyConfiguration(sameMs) ==
  LET configuration == CreateConfigurationFromAudioController(master, tracks, timer)
  IN /\ obs' = ObsOp(obs, [name |-> "applyConfiguration",
                           configuration |-> configuration,
                           restored |-> ApplyConfigurationToAudioController(configuration,
                                                                            sameMs)])
     /\ UNCHANGED <<tracks, stops, master, stopAlls, timer, ctl, exps, jobs, tasks,
                    wav, noise, env>>

ConfigurationKinds == {"noise", "isochronic"}

InitConfiguration ==
  /\ tracks = <<>>
  /\ stops = <<>>
  /\ \E mv \in {Absent, VolScale - 1} : master = NewController(mv, 1, 1)
  /\ stopAlls = <<>>
  /\ timer = TimerIdle
  /\ ctl = CtlIdle
  /\ exps = <<>>
  /\ jobs = <<>>
  /\ tasks = {}
  /\ wav = WavIdle
  /\ noise = NoiseIdle
  /\ env = EnvIdle
  /\ obs = ObsInit(<<>>)

NextConfiguration ==
  \/ \E type \in ConfigurationKinds :
       Len(tracks) < MaxTracks /\ CreateTrack(type, VolScale \div 2, Absent, Absent)
  \/ StartAll(Absent)
  \/ StopAll(Absent)
  \/ \E i \in 1..Len(stopAlls) : StopAllTimeout(i)
  \/ \E i \in 1..Len(stops) : StopTimeout(i)
  \/ Tick
  \/ MsPasses
  \/ \E sameMs \in BOOLEAN : ApplyConfiguration(sameMs)

SpecConfiguration == InitConfiguration /\ [][NextConfiguration]_vars

\* the restored controller has the master volume and the default fades of
\* the controller the configuration was taken from
RestoredSettings ==
  obs.op.name = "applyConfiguration" =>
    /\ obs.op.restored.master.masterVolume = master.masterVolume
    /\ obs.op.restored.master.fadeInDuration = master.fadeInDuration
    /\ obs.op.restored.master.fadeOutDuration = master.fadeOutDuration

\* the restored controller holds as many tracks
RestoredTrackCount ==
  obs.op.name = "applyConfiguration" =>
    Cardinality(DOMAIN obs.op.restored.master.map) = Cardinality(DOMAIN master.map)

\* the k-th stored track is restored with its kind, its configured volume and
\* the parameters of its kind
RestoredTracks ==
  obs.op.name = "applyConfiguration" =>
    \A k \in DOMAIN MapOrder(master) :
      LET o == master.map[MapOrder(master)[k]]
          r == obs.op.restored.tracks[k]
      IN /\ r.kind = tracks[o].kind
         /\ GetVolume(r) = obs.cfg[o]
         /\ r.noiseType = tracks[o].noiseType
         /\ r.carrierFrequency = tracks[o].carrierFrequency
         /\ r.beatFrequency = tracks[o].beatFrequency

\* C31: applying to a new controller the configuration taken from a
\* controller reproduces its master volume, its default fades, the number
\* of its tracks and each track's kind, configured volume and parameters,
\* whether the controller is playing, was stopped or was never started
C31_ConfigurationRoundTrip ==
  RestoredSettings /\ RestoredTrackCount /\ RestoredTracks

\* ------------------------------------------ isochronic track parameters
\* IsochronicTrack.update({carrierFrequency, beatFrequency}): a number is
\* stored only while the oscillator (the lfo) exists, that is while the
\* track has its subgraph
IsochronicUpdate(tr, carrierFrequency, beatFrequency) ==
  [tr EXCEPT !.carrierFrequency = IF carrierFrequency # Absent /\ tr.nodes
                                  THEN carrierFrequency ELSE @,
             !.beatFrequency = IF beatFrequency # Absent /\ tr.nodes
                               THEN beatFrequency ELSE @]

\* AudioController.updateTrack(id, {carrierFrequency, beatFrequency}) on an
\* isochronic track
TrackUpdateFrequency(o, carrierFrequency, beatFrequency) ==
  /\ tracks[o].kind = "isochronic"
  /\ tracks' = [tracks EXCEPT ![o] = IsochronicUpdate(@, carrierFrequency, beatFrequency)]
  /\ obs' = ObsOp(obs, [name |-> "updateFrequency", trk |-> o,
                        carrierFrequency |-> carrierFrequency,
                        beatFrequency |-> beatFrequency,
                        idle |-> ~tracks[o].isPlaying /\ ~tracks[o].nodes])
  /\ UNCHANGED <<stops, master, stopAlls, timer, ctl, exps, jobs, tasks, wav, noise, env>>

Carriers == {Absent, 100, 300}
Beats == {Absent, 4, 10}

InitIsochronic ==
  /\ \E carrierFrequency \in {Absent, 100}, beatFrequency \in {Absent, 4} :
       tracks = <<NewIsochronicTrack(carrierFrequency, beatFrequency, Absent, 1, 1)>>
  /\ stops = <<>>
  /\ master = NewController(Absent, Absent, Absent)
  /\ stopAlls = <<>>
  /\ timer = TimerIdle
  /\ ctl = CtlIdle
  /\ exps = <<>>
  /\ jobs = <<>>
  /\ tasks = {}
  /\ wav = WavIdle
  /\ noise = NoiseIdle
  /\ env = EnvIdle
  /\ obs = ObsInit(tracks)

NextIsochronic ==
  \/ \E o \in TrackRefs : TrackStart(o)
  \/ \E o \in TrackRefs : TrackStop(o)
  \/ \E o \in TrackRefs, carrierFrequency \in Carriers, beatFrequency \in Beats :
       TrackUpdateFrequency(o, carrierFrequency, beatFrequency)
  \/ \E i \in 1..Len(stops) : StopTimeout(i)
  \/ Tick

SpecIsochronic == InitIsochronic /\ [][NextIsochronic]_vars

\* the frequencies given to the last update() are the stored ones
UpdateStored ==
  /\ obs.op.carrierFrequency # Absent =>
       tracks[obs.op.trk].carrierFrequency = obs.op.carrierFrequency
  /\ obs.op.beatFrequency # Absent =>
       tracks[obs.op.trk].beatFrequency = obs.op.beatFrequency

\* C32: after update() with a numeric carrierFrequency or beatFrequency on
\* an isochronic track the stored parameter is the new value, in every
\* lifecycle state of the track, idle included
C32_UpdateStoresFrequency ==
  obs.op.name = "updateFrequency" => UpdateStored

\* the same of the updates made while the track has its subgraph
UpdateStoredWhilePlaying ==
  obs.op.name = "updateFrequency" /\ ~obs.op.idle => UpdateStored

\* ---------------------------------------------- quantisation of samples
\* samples are counted in steps of 1 / QuantScale, from -1.5 to 1.5
QuantScale == 8
QuantSamples == (0 - QuantScale - QuantScale \div 2)..(QuantScale + QuantScale \div 2)

\* the loops of _floatTo16BitPCM and _audioBufferToMp3 over the same samples
QuantizeSamples ==
  /\ ~wav.done
  /\ wav' = [wav EXCEPT !.done = TRUE,
                        !.pcm = [i \in DOMAIN wav.samples |->
                                   FloatToInt16(wav.samples[i], QuantScale)],
                        !.mp3 = [i \in DOMAIN wav.samples |->
                                   Mp3FloatToInt16(wav.samples[i], QuantScale)]]
  /\ UNCHANGED <<tracks, stops, master, stopAlls, timer, ctl, exps, jobs, tasks,
                 noise, env, obs>>

InitQuantize ==
  /\ \E samples \in [1..2 -> QuantSamples] :
       wav = [done |-> FALSE, samples |-> samples, pcm |-> <<>>, mp3 |-> <<>>]
  /\ tracks = <<>>
  /\ stops = <<>>
  /\ master = NewController(Absent, Absent, Absent)
  /\ stopAlls = <<>>
  /\ timer = TimerIdle
  /\ ctl = CtlIdle
  /\ exps = <<>>
  /\ jobs = <<>>
  /\ tasks = {}
  /\ noise = NoiseIdle
  /\ env = EnvIdle
  /\ obs = ObsInit(tracks)

NextQuantize == QuantizeSamples

SpecQuantize == InitQuantize /\ [][NextQuantize]_vars

\* the sample s clamped to [-1, 1]
ClampSample(s) == Max({0 - QuantScale, Min({QuantScale, s})})

\* what the claim says of the quantised values out of the samples in
QuantisedAsSpecified(in, out) ==
  \A i \in DOMAIN in :
    /\ out[i] \in (0 - 32768)..32767
    /\ ClampSample(in[i]) = 0 - QuantScale => out[i] = 0 - 32768
    /\ in[i] = 0 => out[i] = 0
    /\ ClampSample(in[i]) = QuantScale => out[i] = 32767
    /\ \A k \in DOMAIN in : in[i] <= in[k] => out[i] <= out[k]

\* C33: both encoders map every sample to a 16-bit integer in
\* -32768..32767, with -1 and everything below going to -32768, 0 to 0, +1
\* and everything above to 32767, and a larger sample never to a smaller
\* integer
C33_QuantisationRange ==
  wav.done => /\ QuantisedAsSpecified(wav.samples, wav.pcm)
              /\ QuantisedAsSpecified(wav.samples, wav.mp3)

C33_QuantisationRangeWitness ==
  /\ wav.done
  /\ wav.samples = <<0 - QuantScale - 1, QuantScale + 1>>
  /\ wav.pcm = <<0 - 32768, 32767>>
  /\ wav.mp3 = <<0 - 32768, 32767>>

\* ------------------------------------------------ the isochronic gate
\* An oscillator's period is divided into PhaseSteps phases; a signal value
\* v stands for v / SignalScale, a gate value g for g / GateScale.
PhaseSteps == 16
SignalScale == 255
GateScale == 2 * SignalScale
MaxPhaseStep == 4

\* sin(2 pi phase / 16) in units of 1 / 255, rounded
SineQuarter == <<0, 98, 180, 236, 255>>

SineWave(phase) ==
  LET q == phase % (PhaseSteps \div 2)
      up == IF q <= PhaseSteps \div 4 THEN q ELSE PhaseSteps \div 2 - q
      v == SineQuarter[up + 1]
  IN IF phase % PhaseSteps < PhaseSteps \div 2 THEN v ELSE 0 - v

\* the square wave: +1 over the first half of the period, -1 over the second
SquareWave(phase) ==
  IF phase % PhaseSteps < PhaseSteps \div 2 THEN SignalScale ELSE 0 - SignalScale

\* OscillatorNode output for oscillator.type
OscillatorOutput(type, phase) ==
  IF type = "square" THEN SquareWave(phase) ELSE SineWave(phase)

\* AudioExporter._createPulseWaveShaper: curve[0..127] = 0, curve[128..255] = 1
CreatePulseWaveShaper == [i \in 1..256 |-> IF i <= 128 THEN 0 ELSE 1]

\* WaveShaperNode: the input x in [-1, 1] is looked up at v = (N - 1) / 2 *
\* (x + 1), interpolating linearly between curve[floor(v)] and the next
WaveShaper(curve, x) ==
  LET n == Len(curve)
      in == Max({0 - SignalScale, Min({SignalScale, x})})
      v == (n - 1) * (in + SignalScale)       \* v * GateScale
      k == v \div GateScale
      f == v % GateScale
  IN IF k >= n - 1 THEN curve[n] * GateScale
     ELSE (GateScale - f) * curve[k + 1] + f * curve[k + 2]

\* a GainNode with gain g / GateScale applied to the signal x
GainNode(g, x) == (g * x) \div GateScale

\* IsochronicTrack._createOscillator: a square lfo through lfoGain (gain 1)
\* into modulationGain.gain, whose own value is 0; an AudioParam adds the
\* signals connected to it to its value
LiveGate(phase) ==
  LET signal == GainNode(GateScale, OscillatorOutput("square", phase))
  IN 0 + (GateScale \div SignalScale) * signal

\* AudioExporter._cloneIsochronicTrack: a sine lfo through the wave shaper
\* into modulationGain.gain, whose own value is 0
OfflineGate(phase) ==
  0 + WaveShaper(CreatePulseWaveShaper, OscillatorOutput("sine", phase))

\* one sample is rendered: the lfo has advanced by step phases
RenderGate ==
  /\ wav.rendered < PhaseSteps
  /\ LET phase == IF wav.rendered = 0 THEN 0 ELSE (wav.phase + wav.step) % PhaseSteps
     IN wav' = [wav EXCEPT !.rendered = @ + 1,
                           !.phase = phase,
                           !.gate = IF wav.offline THEN OfflineGate(phase)
                                    ELSE LiveGate(phase)]
  /\ UNCHANGED <<tracks, stops, master, stopAlls, timer, ctl, exps, jobs, tasks,
                 noise, env, obs>>

InitGate ==
  /\ \E offline \in BOOLEAN, step \in 1..MaxPhaseStep :
       wav = [offline |-> offline, step |-> step, rendered |-> 0, phase |-> 0,
              gate |-> Absent]
  /\ tracks = <<>>
  /\ stops = <<>>
  /\ master = NewController(Absent, Absent, Absent)
  /\ stopAlls = <<>>
  /\ timer = TimerIdle
  /\ ctl = CtlIdle
  /\ exps = <<>>
  /\ jobs = <<>>
  /\ tasks = {}
  /\ noise = NoiseIdle
  /\ env = EnvIdle
  /\ obs = ObsInit(tracks)

NextGate == RenderGate

SpecGate == InitGate /\ [][NextGate]_vars

\* C34: the gate that multiplies the isochronic carrier takes only the
\* values 0 and 1, in the live subgraph and in the offline clone
C34_GateZeroOrOne ==
  wav.gate # Absent => wav.gate \in {0, GateScale}

\* the table itself: 256 entries, the first half 0 and the second half 1
PulseCurveHalves ==
  /\ Len(CreatePulseWaveShaper) = 256
  /\ \A i \in 1..128 : CreatePulseWaveShaper[i] = 0
  /\ \A i \in 129..256 : CreatePulseWaveShaper[i] = 1

\* the live gate is -1 or +1, the offline gate lies in [0, 1]
GateAsBuilt ==
  wav.gate # Absent =>
    IF wav.offline THEN wav.gate \in 0..GateScale
    ELSE wav.gate \in {0 - GateScale, GateScale}

\* ------------------------------------ specification of removing tracks
\* one track with a fade-out of one tick is created, started, stopped,
\* changed and removed; the timeouts of one tick fire in the order they
\* were set, as timers of the same delay do
RemoveIds == {1, 2}

InitRemove == InitGraph

StopTimeoutInOrder(i) ==
  /\ \A k \in 1..(i - 1) : stops[k].rem > 0
  /\ StopTimeout(i)

NextRemove ==
  \/ \E type \in GraphKinds :
       tracks = <<>> /\ CreateTrack(type, VolScale, 0, 1)
  \/ \E id \in RemoveIds : RemoveTrack(id)
  \/ \E o \in Held(master) : TrackStart(o)
  \/ \E o \in Held(master) : TrackStop(o)
  \/ \E o \in Held(master) : TrackUpdateNoise(o, "pink")
  \/ \E o \in Held(master) : UpdateTrackFades(o, Absent, 0)
  \/ \E i \in 1..Len(stops) : StopTimeoutInOrder(i)
  \/ Tick

SpecRemove == InitRemove /\ [][NextRemove]_vars

\* a timeout of stop() is due: StopTimeoutInOrder is enabled
StopTimeoutDue == \E i \in 1..Len(stops) : stops[i].rem = 0

\* time passes and a timeout that is due fires: weak fairness of Tick and of
\* the timeouts (written out, StopTimeoutDue being what ENABLED amounts to)
SpecRemoveFair ==
  /\ SpecRemove
  /\ WF_vars(Tick)
  /\ \/ []<>(~StopTimeoutDue)
     \/ []<><<\E i \in 1..Len(stops) : StopTimeoutInOrder(i)>>_vars

\* track o has just been removed by removeTrack
Removed(o) == obs.op.name = "removeTrack" /\ obs.op.removed /\ obs.op.trk = o

\* track o is idle, its subgraph released and its gain node disconnected
Released(o) ==
  /\ o \in DOMAIN tracks
  /\ ~tracks[o].isPlaying
  /\ ~tracks[o].nodes
  /\ tracks[o].out = "none"

\* what a removeTrack step does to the controller's Map
RemoveTrackStep ==
  obs'.op.name = "removeTrack" =>
    /\ obs'.op.removed = (obs'.op.id \in DOMAIN master.map)
    /\ obs'.op.id \notin DOMAIN master'.map
    /\ obs'.op.removed =>
         /\ obs'.op.trk = master.map[obs'.op.id]
         /\ obs'.op.trk \notin Held(master')
         /\ tracks'[obs'.op.trk].out = "none"
    /\ ~obs'.op.removed => UNCHANGED <<tracks, stops, master, stopAlls, timer>>

RemovedTrackStaysReleased ==
  \A o \in 1..MaxTracks : Removed(o) ~> [](Released(o))

\* ---------------------------------------------------------- C36 - C38
\* a stop() resolves on a track whose last start() took effect after every
\* stop() called on it (its fade-in is still under observation)
ResolvesAfterStart(o) ==
  /\ obs.fade[o].on
  /\ \E r \in obs'.resolved : r.trk = o /\ ~r.idle

\* C36: a stop() never tears down the subgraph built by a start() that was
\* issued after that stop(): when a stop() resolves after such a start(),
\* the track is still playing and its subgraph is intact
C36_StopSparesLaterStart ==
  [][\A o \in TrackRefs :
       ResolvesAfterStart(o) => tracks'[o].isPlaying /\ tracks'[o].nodes]_vars

\* the operations the application calls (the other steps are waits that
\* elapse)
CallNames == {"createTrack", "createTrackThrew", "startAll", "stopAll", "start", "stop",
              "setMasterVolume", "applyConfiguration", "updateNoise", "removeTrack"}

\* startAll() has just been called while a stopAll() awaits its fade-out
StartAllDuringFade ==
  /\ obs.op.name = "startAll"
  /\ \E i \in 1..Len(stopAlls) : stopAlls[i].phase = "fade"

\* the application has just called something else
CalledOther ==
  /\ obs.op.name \in CallNames \/ (obs.op.name = "stopAllResolved" /\ obs.op.early)
  /\ ~StartAllDuringFade

\* no wait is pending and no ramp is under way
NoWaitPending ==
  /\ stops = <<>>
  /\ stopAlls = <<>>
  /\ Len(master.gain) = 1
  /\ \A o \in Held(master) : Len(tracks[o].gain) = 1

ControllerPlaying ==
  /\ master.isPlaying
  /\ \A o \in Held(master) : tracks[o].isPlaying
  /\ Value(master.gain) = master.masterVolume

\* the timeout of a stopAll's fade wait is due: StopAllTimeout is enabled
StopAllTimeoutDue ==
  \E i \in 1..Len(stopAlls) : stopAlls[i].phase = "fade" /\ stopAlls[i].rem = 0

\* time passes and every timeout that is due fires (weak fairness of Tick
\* and of the timeouts, written out); the application may call nothing more
SpecConfigurationFair ==
  /\ SpecConfiguration
  /\ WF_vars(Tick)
  /\ \/ []<>(~StopAllTimeoutDue)
     \/ []<><<\E i \in 1..Len(stopAlls) : StopAllTimeout(i)>>_vars
  /\ \/ []<>(~StopTimeoutDue)
     \/ []<><<\E i \in 1..Len(stops) : StopTimeout(i)>>_vars

\* C37: after a startAll() called while an earlier stopAll() awaits its
\* fade-out, with nothing called afterwards, the controller is playing once
\* the pending waits have elapsed: isPlaying is true, every held track plays
\* and the master envelope is at masterVolume
C37_StartAllDuringStopAll ==
  [](StartAllDuringFade => ([](NoWaitPending => ControllerPlaying) \/ <>CalledOther))

\* a controller with one noise track: playback is started and stopped and
\* the colour of the noise is changed
InitStopAll == InitConfiguration

NextStopAll ==
  \/ tracks = <<>> /\ CreateTrack("noise", VolScale \div 2, Absent, Absent)
  \/ StartAll(Absent)
  \/ StopAll(Absent)
  \/ \E o \in Held(master), noiseType \in {"white", "pink"} : TrackUpdateNoise(o, noiseType)
  \/ \E i \in 1..Len(stopAlls) : StopAllTimeout(i)
  \/ \E i \in 1..Len(stops) : StopTimeoutInOrder(i)
  \/ Tick

SpecStopAll == InitStopAll /\ [][NextStopAll]_vars

\* the same with time passing and every due timeout firing
SpecStopAllFair ==
  /\ SpecStopAll
  /\ WF_vars(Tick)
  /\ \/ []<>(~StopAllTimeoutDue)
     \/ []<><<\E i \in 1..Len(stopAlls) : StopAllTimeout(i)>>_vars
  /\ \/ []<>(~StopTimeoutDue)
     \/ []<><<\E i \in 1..Len(stops) : StopTimeoutInOrder(i)>>_vars

\* a stopAll() has just resolved
StopAllResolved == obs.op.name = "stopAllResolved"

\* start(), startTrack() or startAll() has just been called
StartCalled == obs.op.name \in {"start", "startAll"}

AllHeldIdle == \A o \in Held(master) : ~tracks[o].isPlaying

\* C38: once stopAll() has resolved, and as long as start(), startTrack()
\* or startAll() is not called, no held track is playing, nor becomes
\* playing later, also when updateTrack changed the noiseType of a noise
\* track while it was playing or fading out
C38_StoppedStaysStopped ==
  [](StopAllResolved => ([]AllHeldIdle \/ <>StartCalled))

\* the same without colour changes under way when stopAll() resolves
StoppedStaysStoppedButRestart ==
  [](StopAllResolved /\ stops = <<>> => ([]AllHeldIdle \/ <>StartCalled))

\* ------------------------------------------ UIController (uiController.js)
\* env.ui is the UIController: isPlaying, masterVolume (in 1 / VolScale),
\* timerDuration, fadeInDuration and fadeOutDuration (in ticks); env.storage
\* holds the strings of its three localStorage keys.  A string is a
\* sequence of characters.
MaxDigits == 6

Digit(d) == <<"0", "1", "2", "3", "4", "5", "6", "7", "8", "9">>[d + 1]

DigitValue(c) == CHOOSE d \in 0..9 : Digit(d) = c

RECURSIVE IntDigits(_)
IntDigits(k) == IF k < 10 THEN <<Digit(k)>> ELSE Append(IntDigits(k \div 10), Digit(k % 10))

RECURSIVE FracDigits(_, _, _)
FracDigits(r, scale, left) ==
  IF r = 0 \/ left = 0 THEN <<>>
  ELSE <<Digit((r * 10) \div scale)>> \o FracDigits((r * 10) % scale, scale, left - 1)

\* Number.prototype.toString of the number n / scale (n >= 0)
NumberToString(n, scale) ==
  IF n = NaN THEN <<"N", "a", "N">>
  ELSE IntDigits(n \div scale)
         \o (IF n % scale = 0 THEN <<>> ELSE <<".">> \o FracDigits(n % scale, scale, MaxDigits))

RECURSIVE DigitsValue(_)
DigitsValue(cs) ==
  IF cs = <<>> THEN 0 ELSE 10 * DigitsValue(SubSeq(cs, 1, Len(cs) - 1)) + DigitValue(cs[Len(cs)])

RECURSIVE PowerOfTen(_)
PowerOfTen(k) == IF k = 0 THEN 1 ELSE 10 * PowerOfTen(k - 1)

\* parseFloat(string), as a number of 1 / scale: the digits before and after
\* the point; NaN when the string does not start with a digit
ParseFloat(cs, scale) ==
  IF cs = <<>> \/ cs[1] \notin {Digit(d) : d \in 0..9} THEN NaN
  ELSE LET point == IF \E i \in DOMAIN cs : cs[i] = "."
                    THEN CHOOSE i \in DOMAIN cs : cs[i] = "." ELSE Len(cs) + 1
           whole == SubSeq(cs, 1, point - 1)
           fraction == SubSeq(cs, point + 1, Len(cs))
       IN DigitsValue(whole) * scale
            + (DigitsValue(fraction) * scale) \div PowerOfTen(Len(fraction))

\* localStorage.setItem(key, number.toString())
SaveToStorage(n, scale) == [present |-> TRUE, value |-> NumberToString(n, scale)]

\* loadVolumeFromStorage, loadFadeInDurationFromStorage,
\* loadFadeOutDurationFromStorage: null (Absent) when the key is not set
LoadFromStorage(item, scale) ==
  IF item.present THEN ParseFloat(item.value, scale) ELSE Absent

\* a || b where a is a number or null: b when a is null, 0 or NaN
OrElse(a, b) == IF a \in {Absent, 0, NaN} THEN b ELSE a

\* new UIController(options): the fields the constructor sets
NewUIController(storage) ==
  [ isPlaying |-> FALSE,
    masterVolume |-> OrElse(LoadFromStorage(storage.masterVolume, VolScale), DefaultVolume),
    timerDuration |-> 0,
    fadeInDuration |-> OrElse(LoadFromStorage(storage.fadeInDuration, TicksPerSecond),
                              DefaultFadeIn),
    fadeOutDuration |-> OrElse(LoadFromStorage(storage.fadeOutDuration, TicksPerSecond),
                               DefaultFadeOut) ]

\* UIController.initUI on the controller m: the settings are handed on
InitUI(m, ui) ==
  LET a == SetMasterVolumeOn(Initialize(m), ui.masterVolume)
      b == IF ui.fadeInDuration >= 0 THEN [a EXCEPT !.fadeInDuration = ui.fadeInDuration]
           ELSE a
  IN IF ui.fadeOutDuration >= 0 THEN [b EXCEPT !.fadeOutDuration = ui.fadeOutDuration]
     ELSE b

\* the numbers the UIController saved last, for the properties
NoneSaved == [masterVolume |-> Absent, fadeInDuration |-> Absent,
              fadeOutDuration |-> Absent]

LastSaved == IF "saved" \in DOMAIN obs.op THEN obs.op.saved ELSE NoneSaved

\* the page is loaded again: a new UIController on the controller
ConstructUIController ==
  LET ui == NewUIController(env.storage)
  IN /\ InitializeExporter
     /\ master' = InitUI(master, ui)
     /\ env' = [env EXCEPT !.ui = ui]
     /\ obs' = ObsOp(obs, [name |-> "newUIController", saved |-> LastSaved])
     /\ UNCHANGED <<tracks, stops, stopAlls, timer, wav, noise>>

\* UIController.setMasterVolume(volume)
UiSetMasterVolume(volume) ==
  LET m == SetMasterVolumeOn(Initialize(master), volume)
      actualVolume == m.masterVolume
  IN /\ InitializeExporter
     /\ master' = m
     /\ env' = [env EXCEPT !.ui.masterVolume = actualVolume,
                           !.storage.masterVolume = SaveToStorage(actualVolume, VolScale)]
     /\ obs' = ObsOp(obs, [name |-> "uiSetMasterVolume",
                           saved |-> [LastSaved EXCEPT !.masterVolume = actualVolume]])
     /\ UNCHANGED <<tracks, stops, stopAlls, timer, wav, noise>>

\* UIController.setFadeInDuration(duration)
UiSetFadeInDuration(duration) ==
  /\ IF duration = NaN \/ duration < 0
     THEN /\ obs' = ObsOp(obs, [name |-> "uiSetFadeInDuration", saved |-> LastSaved])
          /\ UNCHANGED <<master, env>>
     ELSE /\ master' = [master EXCEPT !.fadeInDuration = duration]
          /\ env' = [env EXCEPT !.ui.fadeInDuration = duration,
                                !.storage.fadeInDuration =
                                   SaveToStorage(duration, TicksPerSecond)]
          /\ obs' = ObsOp(obs, [name |-> "uiSetFadeInDuration",
                                saved |-> [LastSaved EXCEPT !.fadeInDuration = duration]])
  /\ UNCHANGED <<tracks, stops, stopAlls, timer, ctl, exps, jobs, tasks, wav, noise>>

\* UIController.setFadeOutDuration(duration)
UiSetFadeOutDuration(duration) ==
  /\ IF duration = NaN \/ duration < 0
     THEN /\ obs' = ObsOp(obs, [name |-> "uiSetFadeOutDuration", saved |-> LastSaved])
          /\ UNCHANGED <<master, env>>
     ELSE /\ master' = [master EXCEPT !.fadeOutDuration = duration]
          /\ env' = [env EXCEPT !.ui.fadeOutDuration = duration,
                                !.storage.fadeOutDuration =
                                   SaveToStorage(duration, TicksPerSecond)]
          /\ obs' = ObsOp(obs, [name |-> "uiSetFadeOutDuration",
                                saved |-> [LastSaved EXCEPT !.fadeOutDuration = duration]])
  /\ UNCHANGED <<tracks, stops, stopAlls, timer, ctl, exps, jobs, tasks, wav, noise>>

UiVolumes == {0 - 1, 0, 1, VolScale - 1, VolScale, VolScale + 1}
UiFades == {0 - 1, 0, 1, TicksPerSecond + TicksPerSecond \div 2, 3 * TicksPerSecond}

\* a UIController constructed on a new controller, nothing stored
InitStorage ==
  /\ env = [EnvIdle EXCEPT !.ui = NewUIController(StorageIdle)]
  /\ master = InitUI(NewController(Absent, Absent, Absent), NewUIController(StorageIdle))
  /\ tracks = <<>>
  /\ stops = <<>>
  /\ stopAlls = <<>>
  /\ timer = TimerIdle
  /\ ctl = [CtlIdle EXCEPT !.audioExporter = 1]
  /\ exps = ExportersAfterInit(<<>>)
  /\ jobs = <<>>
  /\ tasks = {}
  /\ wav = WavIdle
  /\ noise = NoiseIdle
  /\ obs = ObsInit(tracks)

NextStorage ==
  \/ \E volume \in UiVolumes : UiSetMasterVolume(volume)
  \/ \E duration \in UiFades : UiSetFadeInDuration(duration)
  \/ \E duration \in UiFades : UiSetFadeOutDuration(duration)
  \/ ConstructUIController

SpecStorage == InitStorage /\ [][NextStorage]_vars

\* C40: a master volume or a fade duration that the UIController saved to
\* local storage is what a newly constructed UIController holds, for every
\* valid value, 0 included
C40_StoredSettingsRestored ==
  obs.op.name = "newUIController" =>
    /\ obs.op.saved.masterVolume # Absent => env.ui.masterVolume = obs.op.saved.masterVolume
    /\ obs.op.saved.fadeInDuration # Absent =>
         env.ui.fadeInDuration = obs.op.saved.fadeInDuration
    /\ obs.op.saved.fadeOutDuration # Absent =>
         env.ui.fadeOutDuration = obs.op.saved.fadeOutDuration

\* the same of the values other than 0
NonZeroSettingsRestored ==
  obs.op.name = "newUIController" =>
    /\ obs.op.saved.masterVolume \notin {Absent, 0} =>
         env.ui.masterVolume = obs.op.saved.masterVolume
    /\ obs.op.saved.fadeInDuration \notin {Absent, 0} =>
         env.ui.fadeInDuration = obs.op.saved.fadeInDuration
    /\ obs.op.saved.fadeOutDuration \notin {Absent, 0} =>
         env.ui.fadeOutDuration = obs.op.saved.fadeOutDuration

\* ----------------------------------------- UIController playback and timer
\* env.ui.timerDuration counts 1/600 of a minute, so that
\* durationMinutes * 60 * 1000 ms is this many ticks of 100 ms
MinutesScale == 600

TimerMilliseconds(durationMinutes) == (durationMinutes * 60 * 1000) \div MinutesScale

MsPerTick == 1000 \div TicksPerSecond

\* the callback UIController.startTimer hands to the controller:
\* () => { this.stopPlayback(); this.updateTimerDisplay(); }
StopPlaybackCallback == 1

\* UIController.startTimer(durationMinutes) on the controller's timer t
UiStartTimer(t, durationMinutes) ==
  IF durationMinutes <= 0 THEN StopTimer(t)
  ELSE StartTimer(StopTimer(t), TimerMilliseconds(durationMinutes) \div MsPerTick,
                  StopPlaybackCallback)

\* obs when UIController.startTimer(durationMinutes) was called
ObsUiTimer(o0, durationMinutes) ==
  IF durationMinutes > 0 THEN [o0 EXCEPT !.timer = [stopAlls |-> 0, callbacks |-> 0]]
  ELSE o0

\* UIController.startPlayback
UiStartPlayback ==
  LET m == Initialize(master)
  IN /\ InitializeExporter
     /\ tracks' = StartAllTracks(m, tracks)
     /\ master' = StartAllMaster(m, Absent)
     /\ timer' = IF env.ui.timerDuration > 0 THEN UiStartTimer(timer, env.ui.timerDuration)
                 ELSE timer
     /\ env' = [env EXCEPT !.ui.isPlaying = TRUE]
     /\ obs' = ObsOp(ObsUiTimer(ObsStarted(obs, IdleHeld(m)), env.ui.timerDuration),
                     [name |-> "uiStartPlayback", started |-> IdleHeld(m)])
     /\ UNCHANGED <<stops, stopAlls, wav, noise>>

\* UIController.stopPlayback
UiStopPlayback ==
  /\ StopAllBegin(Absent)
  /\ timer' = StopTimer(timer)
  /\ env' = [env EXCEPT !.ui.isPlaying = FALSE]
  /\ obs' = ObsOp(obs, [name |-> "uiStopPlayback", stopAll |-> StopAllOp(Absent)])
  /\ UNCHANGED <<tracks, stops, ctl, exps, jobs, tasks, wav, noise>>

\* UIController.togglePlayback
UiTogglePlayback == IF ~env.ui.isPlaying THEN UiStartPlayback ELSE UiStopPlayback

\* UIController.setTimerDuration(durationMinutes)
UiSetTimerDuration(durationMinutes) ==
  /\ env' = [env EXCEPT !.ui.timerDuration = durationMinutes]
  /\ timer' = IF env.ui.isPlaying /\ durationMinutes > 0
              THEN UiStartTimer(timer, durationMinutes)
              ELSE IF env.ui.isPlaying /\ durationMinutes = 0 THEN StopTimer(timer)
              ELSE timer
  /\ obs' = ObsOp(IF env.ui.isPlaying THEN ObsUiTimer(obs, durationMinutes) ELSE obs,
                  [name |-> "uiSetTimerDuration", duration |-> durationMinutes])
  /\ UNCHANGED <<tracks, stops, master, stopAlls, ctl, exps, jobs, tasks, wav, noise>>

\* the interval of AudioController.startTimer fires while a UIController
\* is there: stopTimer(), stopAll(), and the callback when timerCallback is
\* still a function, which is stopPlayback: stopAll() once more, stopTimer()
UiTimerPoll(h) ==
  LET due == timer.elapsed >= timer.duration
      cleared == StopTimer(timer)
      called == cleared.callback = StopPlaybackCallback
      first == StopAllFrom(master, stopAlls, Absent)
      second == StopAllFrom(first.master, first.stopAlls, Absent)
      again(t) == IF h \in DOMAIN t.live THEN [t EXCEPT !.live[h] = PollTicks] ELSE t
  IN /\ h \in DOMAIN timer.live /\ timer.live[h] = 0
     /\ IF due
        THEN /\ Len(stopAlls) < MaxStopAlls
             /\ timer' = again(cleared)
             /\ master' = IF called THEN second.master ELSE first.master
             /\ stopAlls' = IF called THEN second.stopAlls ELSE first.stopAlls
             /\ env' = IF called THEN [env EXCEPT !.ui.isPlaying = FALSE] ELSE env
             /\ obs' = ObsOp([obs EXCEPT !.timer.stopAlls = @ + 1,
                                         !.timer.callbacks = IF called THEN @ + 1 ELSE @],
                             [name |-> "timerPoll", due |-> TRUE,
                              stopAll |-> StopAllOp(Absent),
                              callback |-> timer.callback,
                              elapsed |-> timer.elapsed, duration |-> timer.duration])
        ELSE /\ timer' = again(timer)
             /\ obs' = ObsOp(obs, [name |-> "timerPoll", due |-> FALSE,
                                   elapsed |-> timer.elapsed,
                                   duration |-> timer.duration])
             /\ UNCHANGED <<master, stopAlls, env>>
     /\ UNCHANGED <<tracks, stops, ctl, exps, jobs, tasks, wav, noise>>

\* the timer durations the user picks: none, and one poll long
UiTimerDurations == {0, PollTicks}

\* fades of one tick (0.1 s) were saved; a UIController is constructed on a
\* new controller that holds no track or one noise track
InitUi ==
  LET storage == [StorageIdle EXCEPT
                    !.fadeInDuration = SaveToStorage(1, TicksPerSecond),
                    !.fadeOutDuration = SaveToStorage(1, TicksPerSecond)]
      ui == NewUIController(storage)
  IN /\ \E n \in {0, 1} :
          /\ env = [EnvIdle EXCEPT !.lastId = n, !.storage = storage, !.ui = ui]
          /\ tracks = [o \in 1..n |-> NewTrack("noise", VolScale \div 2, 1, 1)]
          /\ master = [InitUI(NewController(Absent, Absent, Absent), ui)
                         EXCEPT !.map = [id \in 1..n |-> id]]
     /\ stops = <<>>
     /\ stopAlls = <<>>
     /\ timer = TimerIdle
     /\ ctl = [CtlIdle EXCEPT !.audioExporter = 1]
     /\ exps = ExportersAfterInit(<<>>)
     /\ jobs = <<>>
     /\ tasks = {}
     /\ wav = WavIdle
     /\ noise = NoiseIdle
     /\ obs = ObsInit(tracks)

NextUi ==
  \/ UiTogglePlayback
  \/ \E durationMinutes \in UiTimerDurations : UiSetTimerDuration(durationMinutes)
  \/ \E h \in DOMAIN timer.live : UiTimerPoll(h)
  \/ \E i \in 1..Len(stopAlls) : StopAllTimeout(i)
  \/ \E i \in 1..Len(stops) : StopTimeout(i)
  \/ Tick

SpecUi == InitUi /\ [][NextUi]_vars

\* no fade wait of stop or stopAll and no timer poll is pending
UiQuiescent == stops = <<>> /\ stopAlls = <<>> /\ DOMAIN timer.live = {}

\* C39: whenever no fade wait and no timer poll is pending,
\* UIController.isPlaying equals AudioController.isPlaying, and when the
\* timer has expired the UIController is in the stopped state
C39_UiMatchesController ==
  /\ UiQuiescent => env.ui.isPlaying = master.isPlaying
  /\ obs.op.name = "timerPoll" /\ obs.op.due => ~env.ui.isPlaying

\* the half that holds: a stopped UIController has a stopped controller
UiStoppedMeansStopped == UiQuiescent /\ ~env.ui.isPlaying => ~master.isPlaying

\* the timer never stops the UIController
TimerLeavesUiPlaying == obs.op.name = "timerPoll" /\ obs.op.due => env.ui.isPlaying

====
